---- MODULE Spec2Model ----
(***************************************************************************)
(* The command shell of uday.sh: the tokenizer (src/lib/parser.ts), the    *)
(* path resolver, the fuzzy ranking engine and the session state machine   *)
(* (src/components/Terminal/Shell.tsx).                                    *)
(*                                                                         *)
(* A JavaScript string is a sequence of one-character strings, so that     *)
(* splitting, trimming, lower-casing and joining are computed, not assumed.*)
(***************************************************************************)
EXTENDS Integers, Sequences, FiniteSets, TLC

(***************************************************************************)
(* JavaScript values that are not strings.                                 *)
(***************************************************************************)
\* null / undefined where a string is expected
NULL == <<"<null>">>

\* a truthy non-string value read through Object.prototype (ALIASES["constructor"],
\* children["__proto__"], ...): a function or an object, never a string
JSInherited == <<"<inherited>">>

\* the keys every plain object literal inherits from Object.prototype
ObjectPrototypeKeys ==
    { <<"c","o","n","s","t","r","u","c","t","o","r">>,
      <<"_","_","p","r","o","t","o","_","_">>,
      <<"t","o","S","t","r","i","n","g">>,
      <<"v","a","l","u","e","O","f">>,
      <<"h","a","s","O","w","n","P","r","o","p","e","r","t","y">> }

IsString(v) == v # NULL /\ v # JSInherited

(***************************************************************************)
(* String primitives.                                                      *)
(***************************************************************************)
UpperChars ==
    <<"A","B","C","D","E","F","G","H","I","J","K","L","M",
      "N","O","P","Q","R","S","T","U","V","W","X","Y","Z">>

LowerChars ==
    <<"a","b","c","d","e","f","g","h","i","j","k","l","m",
      "n","o","p","q","r","s","t","u","v","w","x","y","z">>

\* /\s/
IsSpace(c) == c \in {" ", "\t", "\n"}

LowerChar(c) ==
    IF \E i \in 1..26 : UpperChars[i] = c
    THEN LowerChars[CHOOSE i \in 1..26 : UpperChars[i] = c]
    ELSE c

\* String.prototype.toLowerCase
toLowerCase(s) == [i \in 1..Len(s) |-> LowerChar(s[i])]

\* String.prototype.slice(from) with a 0-based index
sliceFrom(s, from) == SubSeq(s, from + 1, Len(s))

\* String.prototype.slice(0, to) with a 0-based exclusive end
sliceTo(s, to) == SubSeq(s, 1, to)

\* String.prototype.trimStart
trimStart(s) ==
    IF \A i \in 1..Len(s) : IsSpace(s[i]) THEN <<>>
    ELSE sliceFrom(s, (CHOOSE i \in 1..Len(s) :
                          /\ ~IsSpace(s[i])
                          /\ \A j \in 1..(i - 1) : IsSpace(s[j])) - 1)

\* String.prototype.trimEnd
trimEnd(s) ==
    IF \A i \in 1..Len(s) : IsSpace(s[i]) THEN <<>>
    ELSE sliceTo(s, CHOOSE i \in 1..Len(s) :
                          /\ ~IsSpace(s[i])
                          /\ \A j \in (i + 1)..Len(s) : IsSpace(s[j]))

\* String.prototype.trim
trim(s) == trimEnd(trimStart(s))

\* a prefix test that accepts p anywhere in s
startsWithAnywhere(s, p) ==
    \E i \in 0..(Len(s) - Len(p)) : SubSeq(s, i + 1, i + Len(p)) = p

\* String.prototype.startsWith
startsWith(s, p) == Len(p) <= Len(s) /\ SubSeq(s, 1, Len(p)) = p

\* String.prototype.endsWith
endsWith(s, p) == Len(p) <= Len(s) /\ SubSeq(s, Len(s) - Len(p) + 1, Len(s)) = p

\* String.prototype.includes
includes(s, p) == \E i \in 0..(Len(s) - Len(p)) : SubSeq(s, i + 1, i + Len(p)) = p

\* String.prototype.indexOf for a single character: 0-based, -1 when absent
indexOf(s, c) ==
    IF \E i \in 1..Len(s) : s[i] = c
    THEN (CHOOSE i \in 1..Len(s) : s[i] = c /\ \A j \in 1..(i - 1) : s[j] # c) - 1
    ELSE -1

\* String.prototype.lastIndexOf for a single character: 0-based, -1 when absent
lastIndexOf(s, c) ==
    IF \E i \in 1..Len(s) : s[i] = c
    THEN (CHOOSE i \in 1..Len(s) : s[i] = c /\ \A j \in (i + 1)..Len(s) : s[j] # c) - 1
    ELSE -1

RECURSIVE SplitOn(_, _, _)
\* String.prototype.split(c) for a single character c; cur is the piece being read
SplitOn(s, c, cur) ==
    IF s = <<>> THEN <<cur>>
    ELSE IF Head(s) = c THEN <<cur>> \o SplitOn(Tail(s), c, <<>>)
    ELSE SplitOn(Tail(s), c, Append(cur, Head(s)))

split(s, c) == SplitOn(s, c, <<>>)

RECURSIVE FilterNonEmpty(_)
\* Array.prototype.filter(Boolean) on an array of strings
FilterNonEmpty(parts) ==
    IF parts = <<>> THEN <<>>
    ELSE IF Head(parts) = <<>> THEN FilterNonEmpty(Tail(parts))
    ELSE <<Head(parts)>> \o FilterNonEmpty(Tail(parts))

RECURSIVE join(_, _)
\* Array.prototype.join(sep)
join(parts, sep) ==
    IF parts = <<>> THEN <<>>
    ELSE IF Len(parts) = 1 THEN parts[1]
    ELSE parts[1] \o sep \o join(Tail(parts), sep)

(***************************************************************************)
(* src/lib/parser.ts                                                       *)
(***************************************************************************)
\* the alias table's own keys
ALIASES ==
    [k \in { <<"?">>, <<"d","i","r">>, <<"g","o","t","o">>,
             <<"r","e","a","d">>, <<"t","l","d","r">> } |->
        CASE k = <<"?">> -> <<"h","e","l","p">>
          [] k = <<"d","i","r">> -> <<"l","s">>
          [] k = <<"g","o","t","o">> -> <<"c","d">>
          [] k = <<"r","e","a","d">> -> <<"c","a","t">>
          [] k = <<"t","l","d","r">> -> <<"s","u","m","m","a","r","y">>]

\* table[key] on a plain object literal: an own key, else a key of
\* Object.prototype, else undefined
PropertyRead(table, key) ==
    IF key \in DOMAIN table THEN table[key]
    ELSE IF key \in ObjectPrototypeKeys THEN JSInherited
    ELSE NULL

\* ALIASES[rawCmd] || rawCmd
AliasOrSelf(rawCmd) ==
    IF PropertyRead(ALIASES, rawCmd) # NULL THEN PropertyRead(ALIASES, rawCmd) ELSE rawCmd

RECURSIVE TokenizeNoEscapeInQuotes(_, _, _, _, _, _)
\* the scanning loop with the backslash taken as itself inside quotes
TokenizeNoEscapeInQuotes(input, i, tokens, currentToken, insideQuote, escaping) ==
    IF i > Len(input)
    THEN [tokens |-> tokens, currentToken |-> currentToken, insideQuote |-> insideQuote]
    ELSE LET char == input[i] IN
        IF escaping
        THEN TokenizeNoEscapeInQuotes(input, i + 1, tokens, Append(currentToken, char),
                                      insideQuote, FALSE)
        ELSE IF insideQuote # NULL
        THEN IF <<char>> = insideQuote
             THEN TokenizeNoEscapeInQuotes(input, i + 1, tokens, currentToken, NULL, FALSE)
             ELSE TokenizeNoEscapeInQuotes(input, i + 1, tokens,
                                           Append(currentToken, char), insideQuote, FALSE)
        ELSE IF char = "\\"
        THEN TokenizeNoEscapeInQuotes(input, i + 1, tokens, currentToken, insideQuote, TRUE)
        ELSE IF char = "\"" \/ char = "'"
        THEN TokenizeNoEscapeInQuotes(input, i + 1, tokens, currentToken, <<char>>, FALSE)
        ELSE IF IsSpace(char)
        THEN IF Len(currentToken) > 0
             THEN TokenizeNoEscapeInQuotes(input, i + 1, Append(tokens, currentToken),
                                           <<>>, insideQuote, FALSE)
             ELSE TokenizeNoEscapeInQuotes(input, i + 1, tokens, currentToken,
                                           insideQuote, FALSE)
        ELSE TokenizeNoEscapeInQuotes(input, i + 1, tokens, Append(currentToken, char),
                                      insideQuote, FALSE)

RECURSIVE Tokenize(_, _, _, _, _, _)
\* the scanning loop of parseCommand; returns the tokens and the open quote
Tokenize(input, i, tokens, currentToken, insideQuote, escaping) ==
    IF i > Len(input)
    THEN [tokens |-> tokens, currentToken |-> currentToken, insideQuote |-> insideQuote]
    ELSE LET char == input[i] IN
        IF escaping
        THEN Tokenize(input, i + 1, tokens, Append(currentToken, char), insideQuote, FALSE)
        ELSE IF char = "\\"
        THEN Tokenize(input, i + 1, tokens, currentToken, insideQuote, TRUE)
        ELSE IF insideQuote # NULL
        THEN IF <<char>> = insideQuote
             THEN Tokenize(input, i + 1, tokens, currentToken, NULL, FALSE)
             ELSE Tokenize(input, i + 1, tokens, Append(currentToken, char), insideQuote, FALSE)
        ELSE IF char = "\"" \/ char = "'"
        THEN Tokenize(input, i + 1, tokens, currentToken, <<char>>, FALSE)
        ELSE IF IsSpace(char)
        THEN IF Len(currentToken) > 0
             THEN Tokenize(input, i + 1, Append(tokens, currentToken), <<>>, insideQuote, FALSE)
             ELSE Tokenize(input, i + 1, tokens, currentToken, insideQuote, FALSE)
        ELSE Tokenize(input, i + 1, tokens, Append(currentToken, char), insideQuote, FALSE)

\* parseCommand's null result (error is "" where the code leaves it undefined)
ParsedNull ==
    [isNull |-> TRUE, raw |-> NULL, commandName |-> NULL, args |-> <<>>, error |-> ""]

\* parseCommand(input): null, the unclosed-quote error, or command name and arguments
parseCommand(input) ==
    IF Len(input) = 0 \/ Len(trim(input)) = 0 THEN ParsedNull
    ELSE LET scan == Tokenize(input, 1, <<>>, <<>>, NULL, FALSE)
             tokens == IF Len(scan.currentToken) > 0
                       THEN Append(scan.tokens, scan.currentToken)
                       ELSE scan.tokens
         IN IF scan.insideQuote # NULL
            THEN [isNull |-> FALSE, raw |-> input, commandName |-> <<>>, args |-> <<>>,
                  error |-> "Unclosed quote found."]
            ELSE IF Len(tokens) = 0 THEN ParsedNull
            ELSE [isNull |-> FALSE, raw |-> input,
                  commandName |-> AliasOrSelf(toLowerCase(tokens[1])),
                  args |-> Tail(tokens), error |-> ""]

(***************************************************************************)
(* The command vocabulary.                                                 *)
(***************************************************************************)
HELP == <<"h","e","l","p">>
CD == <<"c","d">>
LS == <<"l","s">>
OPEN == <<"o","p","e","n">>
CAT == <<"c","a","t">>
SEARCH == <<"s","e","a","r","c","h">>
TREE == <<"t","r","e","e">>
HOME == <<"h","o","m","e">>
BACK == <<"b","a","c","k">>
CLEAR == <<"c","l","e","a","r">>
SUMMARY == <<"s","u","m","m","a","r","y">>
PWD == <<"p","w","d">>

(***************************************************************************)
(* Collation and sorting (Array.prototype.sort with localeCompare).        *)
(***************************************************************************)
\* the characters of the model in localeCompare's order: punctuation, digits, letters
CollationOrder ==
    <<" ","_","-",".","/","?","0","1","2","3","4","5","6","7","8","9",
      "a","b","c","d","e","f","g","h","i","j","k","l","m",
      "n","o","p","q","r","s","t","u","v","w","x","y","z">>

CollationRank(c) ==
    IF \E i \in 1..Len(CollationOrder) : CollationOrder[i] = LowerChar(c)
    THEN CHOOSE i \in 1..Len(CollationOrder) : CollationOrder[i] = LowerChar(c)
    ELSE 0

RECURSIVE ComparePrimary(_, _)
\* letters compare without case first
ComparePrimary(a, b) ==
    IF a = <<>> /\ b = <<>> THEN 0
    ELSE IF a = <<>> THEN -1
    ELSE IF b = <<>> THEN 1
    ELSE IF CollationRank(Head(a)) < CollationRank(Head(b)) THEN -1
    ELSE IF CollationRank(Head(a)) > CollationRank(Head(b)) THEN 1
    ELSE ComparePrimary(Tail(a), Tail(b))

RECURSIVE CompareCase(_, _)
\* then lower case before upper case
CompareCase(a, b) ==
    IF a = <<>> \/ b = <<>> THEN 0
    ELSE IF Head(a) = Head(b) THEN CompareCase(Tail(a), Tail(b))
    ELSE IF Head(a) = LowerChar(Head(a)) THEN -1 ELSE 1

\* String.prototype.localeCompare: negative, zero or positive
localeCompare(a, b) ==
    IF ComparePrimary(a, b) # 0 THEN ComparePrimary(a, b) ELSE CompareCase(a, b)

\* x goes before the first element it precedes (the sort is stable)
InsertSorted(x, sorted, Cmp(_, _)) ==
    LET before == {k \in 1..Len(sorted) : Cmp(x, sorted[k]) < 0}
        at == IF before = {} THEN Len(sorted) + 1
              ELSE CHOOSE k \in before : \A m \in before : k <= m
    IN SubSeq(sorted, 1, at - 1) \o <<x>> \o SubSeq(sorted, at, Len(sorted))

\* Array.prototype.sort(Cmp)
SortBy(xs, Cmp(_, _)) ==
    LET sortedPrefix[n \in 0..Len(xs)] ==
            IF n = 0 THEN <<>> ELSE InsertSorted(xs[n], sortedPrefix[n - 1], Cmp)
    IN sortedPrefix[Len(xs)]

\* Array.prototype.slice(0, limit)
Take(xs, limit) == SubSeq(xs, 1, IF limit < Len(xs) THEN limit ELSE Len(xs))

\* Array.prototype.filter
FilterSeq(xs, Keep(_)) ==
    LET kept[n \in 0..Len(xs)] ==
            IF n = 0 THEN <<>>
            ELSE IF Keep(xs[n]) THEN Append(kept[n - 1], xs[n]) ELSE kept[n - 1]
    IN kept[Len(xs)]

Min2(a, b) == IF a <= b THEN a ELSE b

(***************************************************************************)
(* The fuzzy ranking engine (Shell.tsx).                                   *)
(***************************************************************************)
AUTOCOMPLETE_COMMANDS ==
    << HELP, CD, LS, OPEN, CAT, SEARCH, TREE, HOME, BACK, CLEAR, SUMMARY, PWD >>

\* the threshold one edit lower for the short queries
getMaxEditDistanceShortByOne(queryLength) ==
    IF queryLength <= 4 THEN 1
    ELSE IF queryLength <= 8 THEN 3
    ELSE 4

getMaxEditDistance(queryLength) ==
    IF queryLength <= 4 THEN 2
    ELSE IF queryLength <= 8 THEN 3
    ELSE 4

RECURSIVE LevRowDearSubstitution(_, _, _, _, _)
\* the inner loop with a substitution at the cost of two edits
LevRowDearSubstitution(aChar, b, prevRow, nextRow, j) ==
    IF j > Len(b) THEN nextRow
    ELSE LET cost == IF aChar = b[j] THEN 0 ELSE 2
             cell == Min2(Min2(prevRow[j + 1] + 1, nextRow[j] + 1), prevRow[j] + cost)
         IN LevRowDearSubstitution(aChar, b, prevRow, Append(nextRow, cell), j + 1)

RECURSIVE LevRow(_, _, _, _, _)
\* the inner loop: nextRow[j] for j = 1..bLen, rows indexed from 1 for column 0
LevRow(aChar, b, prevRow, nextRow, j) ==
    IF j > Len(b) THEN nextRow
    ELSE LET cost == IF aChar = b[j] THEN 0 ELSE 1
             cell == Min2(Min2(prevRow[j + 1] + 1, nextRow[j] + 1), prevRow[j] + cost)
         IN LevRow(aChar, b, prevRow, Append(nextRow, cell), j + 1)

RECURSIVE LevRows(_, _, _, _)
\* the outer loop: prevRow after rows i..aLen (a row is never empty; its length
\* is read so that the row is computed before the next one is started)
LevRows(a, b, prevRow, i) ==
    IF i > Len(a) \/ Len(prevRow) = 0 THEN prevRow
    ELSE LevRows(a, b, LevRow(a[i], b, prevRow, <<i>>, 1), i + 1)

\* the distance with two adjacent letters in exchanged places counted as one edit
levenshteinDistanceWithSwaps(a, b) ==
    IF a = b THEN 0
    ELSE IF Len(a) = 0 THEN Len(b)
    ELSE IF Len(b) = 0 THEN Len(a)
    ELSE IF \E i \in 1..(Len(a) - 1) :
               /\ Len(a) = Len(b)
               /\ b = [k \in 1..Len(a) |-> IF k = i THEN a[i + 1]
                                           ELSE IF k = i + 1 THEN a[i] ELSE a[k]]
    THEN 1
    ELSE LevRows(a, b, [j \in 1..(Len(b) + 1) |-> j - 1], 1)[Len(b) + 1]

levenshteinDistance(a, b) ==
    IF a = b THEN 0
    ELSE IF Len(a) = 0 THEN Len(b)
    ELSE IF Len(b) = 0 THEN Len(a)
    ELSE LevRows(a, b, [j \in 1..(Len(b) + 1) |-> j - 1], 1)[Len(b) + 1]

\* one row of rankCandidates' table
RankRow(normalizedQuery, candidate) ==
    LET normalizedCandidate == toLowerCase(candidate)
        starts == startsWith(normalizedCandidate, normalizedQuery)
        incl == includes(normalizedCandidate, normalizedQuery)
        distance == levenshteinDistance(normalizedQuery, normalizedCandidate)
        group == IF starts THEN 0 ELSE IF incl THEN 1 ELSE 2
    IN [candidate |-> candidate, startsWith |-> starts, includes |-> incl,
        distance |-> distance, score |-> group * 100 + distance]

\* the comparison by distance alone, the group left out
RankCompareByDistance(a, b) ==
    IF a.distance - b.distance # 0 THEN a.distance - b.distance
    ELSE localeCompare(a.candidate, b.candidate)

\* (a, b) => a.score - b.score || a.candidate.localeCompare(b.candidate)
RankCompare(a, b) ==
    IF a.score - b.score # 0 THEN a.score - b.score
    ELSE localeCompare(a.candidate, b.candidate)

\* query.trim() on a value that is not a string is a TypeError
rankCandidatesThrows(query) == ~IsString(query)

\* rankCandidates with the threshold taken from the length of the query as given
rankCandidatesUntrimmedLength(query, candidates, limit) ==
    LET normalizedQuery == toLowerCase(trim(query))
        maxDistance == getMaxEditDistance(Len(query))
        rows == [i \in 1..Len(candidates) |-> RankRow(normalizedQuery, candidates[i])]
        Eligible(row) == row.startsWith \/ row.includes \/ row.distance <= maxDistance
        ranked == Take(SortBy(FilterSeq(rows, Eligible), RankCompare), limit)
    IN IF Len(normalizedQuery) = 0 THEN Take(candidates, limit)
       ELSE [i \in 1..Len(ranked) |-> ranked[i].candidate]

\* rankCandidates(query, candidates, limit), for a string query
rankCandidates(query, candidates, limit) ==
    LET normalizedQuery == toLowerCase(trim(query))
        maxDistance == getMaxEditDistance(Len(normalizedQuery))
        rows == [i \in 1..Len(candidates) |-> RankRow(normalizedQuery, candidates[i])]
        Eligible(row) == row.startsWith \/ row.includes \/ row.distance <= maxDistance
        ranked == Take(SortBy(FilterSeq(rows, Eligible), RankCompare), limit)
    IN IF Len(normalizedQuery) = 0 THEN Take(candidates, limit)
       ELSE [i \in 1..Len(ranked) |-> ranked[i].candidate]

(***************************************************************************)
(* The content tree (fs_types.ts), as fs_builder.ts lays it out: "books"   *)
(* and "about" under the root, the book "dune" hoisted to the root, every  *)
(* other book under "books".  A tree is a function from the list of names  *)
(* leading to a node to that node; children keeps the insertion order.     *)
(***************************************************************************)
N_books == <<"b","o","o","k","s">>
N_about == <<"a","b","o","u","t">>
N_dune == <<"d","u","n","e">>
N_sicp == <<"s","i","c","p">>
N_intro == <<"i","n","t","r","o">>
N_analysis == <<"a","n","a","l","y","s","i","s">>
N_chapter2 == <<"c","h","a","p","t","e","r","-","2">>

DirNode(name, title, tags, children) ==
    [type |-> "dir", name |-> name, title |-> title, tags |-> tags,
     children |-> children, slug |-> NULL, content |-> NULL]

FileNode(name, slug, title, tags, content) ==
    [type |-> "file", name |-> name, title |-> title, tags |-> tags,
     children |-> <<>>, slug |-> slug, content |-> content]

\* the tree handed to the shell as props.fs.root
FileSystem ==
    (<<>> :> DirNode(<<>>, NULL, <<>>, <<N_books, N_about, N_dune>>))
    @@ (<<N_books>> :> DirNode(N_books, <<"B","o","o","k"," ","C","o","l","l","e","c","t","i","o","n">>, <<>>, <<N_sicp>>))
    @@ (<<N_about>> :> FileNode(N_about, N_about, <<"A","b","o","u","t"," ","M","e">>, <<>>, <<"I"," ","a","m"," ","U","d","a","y",".">>))
    @@ (<<N_dune>> :> DirNode(N_dune, <<"D","u","n","e">>, <<<<"s","c","i","f","i">>>>, <<N_chapter2, N_analysis>>))
    @@ (<<N_books, N_sicp>> :> DirNode(N_sicp, N_sicp, <<>>, <<N_intro>>))
    @@ (<<N_books, N_sicp, N_intro>> :>
            FileNode(N_intro, N_sicp \o <<"/">> \o N_intro, <<"I","n","t","r","o">>, <<<<"l","i","s","p">>>>, <<>>))
    @@ (<<N_dune, N_chapter2>> :>
            FileNode(N_chapter2, N_dune \o <<"/">> \o N_chapter2, <<"C","h","a","p","t","e","r"," ","2">>, <<>>, <<"A","r","r","a","k","i","s",".">>))
    @@ (<<N_dune, N_analysis>> :>
            FileNode(N_analysis, N_dune \o <<"/">> \o N_analysis, <<"A","n","a","l","y","s","i","s">>, <<<<"T","h","e","m","e">>>>, <<"S","p","i","c","e",".">>))

(***************************************************************************)
(* Path resolution and node lookup (Shell.tsx).  A cursor is the list of   *)
(* names leading to a node of the tree, or InheritedCursor for the value   *)
(* that children[p] yields when p is a key of Object.prototype.            *)
(***************************************************************************)
InheritedCursor == <<JSInherited>>

\* cursor.type
CursorType(root, cursor) ==
    IF cursor = InheritedCursor THEN "undefined" ELSE root[cursor].type

\* node.meta?.title, node.content, node.slug: undefined on an inherited value
CursorTitle(root, cursor) ==
    IF cursor = InheritedCursor THEN NULL ELSE root[cursor].title

CursorContent(root, cursor) ==
    IF cursor = InheritedCursor THEN NULL ELSE root[cursor].content

CursorSlug(root, cursor) ==
    IF cursor = InheritedCursor THEN NULL ELSE root[cursor].slug

\* null / undefined where a node is expected
NoNode == <<NULL>>

\* cursor.children[p]: the child's cursor, InheritedCursor, or NoNode for undefined
ChildAt(root, cursor, p) ==
    IF Append(cursor, p) \in DOMAIN root THEN Append(cursor, p)
    ELSE IF p \in ObjectPrototypeKeys THEN InheritedCursor
    ELSE NoNode

\* target.split('/').filter(Boolean)
Segments(path) == FilterNonEmpty(split(path, "/"))

RECURSIVE FoldSegmentsNoPop(_, _)
\* the fold with ".." skipped as "." is: no segment is ever popped
FoldSegmentsNoPop(parts, stack) ==
    IF parts = <<>> THEN stack
    ELSE IF Head(parts) = <<".">> \/ Head(parts) = <<".", ".">>
    THEN FoldSegmentsNoPop(Tail(parts), stack)
    ELSE FoldSegmentsNoPop(Tail(parts), Append(stack, Head(parts)))

RECURSIVE FoldSegmentsKeepsFirst(_, _)
\* the fold with ".." never popping the last segment left on the stack
FoldSegmentsKeepsFirst(parts, stack) ==
    IF parts = <<>> THEN stack
    ELSE IF Head(parts) = <<".">> THEN FoldSegmentsKeepsFirst(Tail(parts), stack)
    ELSE IF Head(parts) = <<".", ".">>
    THEN FoldSegmentsKeepsFirst(Tail(parts),
                                IF Len(stack) <= 1 THEN stack
                                ELSE SubSeq(stack, 1, Len(stack) - 1))
    ELSE FoldSegmentsKeepsFirst(Tail(parts), Append(stack, Head(parts)))

RECURSIVE FoldSegments(_, _)
\* the left fold of resolvePath: "." skipped, ".." pops, anything else pushed
FoldSegments(parts, stack) ==
    IF parts = <<>> THEN stack
    ELSE IF Head(parts) = <<".">> THEN FoldSegments(Tail(parts), stack)
    ELSE IF Head(parts) = <<".", ".">>
    THEN FoldSegments(Tail(parts),
                      IF stack = <<>> THEN stack ELSE SubSeq(stack, 1, Len(stack) - 1))
    ELSE FoldSegments(Tail(parts), Append(stack, Head(parts)))

RECURSIVE WalkExists(_, _, _)
\* the walk of resolvePath: FALSE where the code returns null
WalkExists(root, cursor, stack) ==
    IF stack = <<>> THEN TRUE
    ELSE IF CursorType(root, cursor) # "dir" \/ ChildAt(root, cursor, Head(stack)) = NoNode
    THEN FALSE
    ELSE WalkExists(root, ChildAt(root, cursor, Head(stack)), Tail(stack))

RECURSIVE FoldWalking(_, _, _)
\* a fold that looks each segment up as it pushes it: NULL where a pushed
\* segment names no child
FoldWalking(root, parts, stack) ==
    IF parts = <<>> THEN stack
    ELSE IF Head(parts) = <<".">> THEN FoldWalking(root, Tail(parts), stack)
    ELSE IF Head(parts) = <<".", ".">>
    THEN FoldWalking(root, Tail(parts),
                     IF stack = <<>> THEN stack ELSE SubSeq(stack, 1, Len(stack) - 1))
    ELSE IF ~WalkExists(root, <<>>, Append(stack, Head(parts))) THEN NULL
    ELSE FoldWalking(root, Tail(parts), Append(stack, Head(parts)))

\* resolvePath walking while it folds
resolvePathWalksFirst(root, current, target) ==
    IF target = <<"/">> \/ target = <<"~">> THEN <<"/">>
    ELSE LET parts == IF startsWith(target, <<"/">>)
                      THEN Segments(target)
                      ELSE Segments(current) \o Segments(target)
             stack == FoldWalking(root, parts, <<>>)
         IN IF stack # NULL THEN <<"/">> \o join(stack, <<"/">>) ELSE NULL

\* resolvePath(root, current, target): an absolute path, or NULL
resolvePath(root, current, target) ==
    IF target = <<"/">> \/ target = <<"~">> THEN <<"/">>
    ELSE LET parts == IF startsWith(target, <<"/">>)
                      THEN Segments(target)
                      ELSE Segments(current) \o Segments(target)
             stack == FoldSegments(parts, <<>>)
         IN IF WalkExists(root, <<>>, stack) THEN <<"/">> \o join(stack, <<"/">>) ELSE NULL

RECURSIVE WalkTo(_, _, _)
\* the loop of getNodeAtPath: the cursor reached, or NoNode
WalkTo(root, cursor, parts) ==
    IF parts = <<>> THEN cursor
    ELSE IF CursorType(root, cursor) # "dir" THEN NoNode
    ELSE IF ChildAt(root, cursor, Head(parts)) = NoNode THEN NoNode
    ELSE WalkTo(root, ChildAt(root, cursor, Head(parts)), Tail(parts))

\* getNodeAtPath(root, path): the cursor of the node, or NoNode
getNodeAtPath(root, path) ==
    IF path = <<"/">> \/ path = <<>> THEN <<>>
    ELSE WalkTo(root, <<>>, Segments(path))

\* ([nameA, nodeA], [nameB, nodeB]) => directories first, then by name
ChildCompare(root, dir, nameA, nameB) ==
    LET typeA == root[Append(dir, nameA)].type
        typeB == root[Append(dir, nameB)].type
    IN IF typeA # typeB THEN (IF typeA = "dir" THEN -1 ELSE 1)
       ELSE localeCompare(nameA, nameB)

\* the names of dir's children as Object.entries yields them, unsorted
getChildrenUnsorted(root, dir) == root[dir].children

\* getSortedChildren(dir): the names of dir's children, sorted
getSortedChildren(root, dir) ==
    LET Cmp(a, b) == ChildCompare(root, dir, a, b)
    IN SortBy(root[dir].children, Cmp)

(***************************************************************************)
(* Path suggestions (Shell.tsx).                                           *)
(***************************************************************************)
\* a falsy string: undefined or ''
Falsy(v) == v = NULL \/ v = <<>>

\* the character U+2014 of the labels
EmDash == "--"

SuggestionOf(isDir, insertText, name, title) ==
    [kind |-> IF isDir THEN "dir" ELSE "file",
     insertText |-> insertText,
     label |-> IF ~Falsy(title) /\ title # name
               THEN insertText \o <<" ", EmDash, " ">> \o title
               ELSE insertText]

\* the suggestion built for the child `name` of dirNode
PathSuggestion(root, dirNode, prefixForRebuild, name) ==
    SuggestionOf(root[Append(dirNode, name)].type = "dir",
                 prefixForRebuild \o name
                     \o (IF root[Append(dirNode, name)].type = "dir" THEN <<"/">> ELSE <<>>),
                 name, root[Append(dirNode, name)].title)

\* one suggestion per name, in order
SuggestAll(root, dirNode, prefixForRebuild, names) ==
    [i \in 1..Len(names) |-> PathSuggestion(root, dirNode, prefixForRebuild, names[i])]

\* the mode filter that lets every child through
ModeAllowsAll(root, dirNode, name, mode) == TRUE

\* mode is 'dir', 'file' or 'both'
ModeAllows(root, dirNode, name, mode) ==
    IF mode = "dir" THEN root[Append(dirNode, name)].type = "dir"
    ELSE IF mode = "file" THEN root[Append(dirNode, name)].type = "file"
    ELSE TRUE

DirNodeOrNone(root, dirNode) ==
    IF dirNode = NoNode THEN NoNode
    ELSE IF CursorType(root, dirNode) # "dir" THEN NoNode
    ELSE dirNode

DirNodeAt(root, resolvedDirPath) ==
    IF resolvedDirPath = NULL THEN NoNode
    ELSE DirNodeOrNone(root, getNodeAtPath(root, resolvedDirPath))

\* dirToken === '' ? (token.startsWith('/') ? '/' : '.') : dirToken
DirArg(token, dirToken) ==
    IF dirToken = <<>> THEN (IF startsWith(token, <<"/">>) THEN <<"/">> ELSE <<".">>)
    ELSE dirToken

\* lastSlashIndex === -1 ? '' : token.slice(0, lastSlashIndex)
DirToken(token, lastSlashIndex) ==
    IF lastSlashIndex = -1 THEN <<>> ELSE sliceTo(token, lastSlashIndex)

\* lastSlashIndex === -1 ? '' : token.slice(0, lastSlashIndex + 1)
PrefixForRebuild(token, lastSlashIndex) ==
    IF lastSlashIndex = -1 THEN <<>> ELSE sliceTo(token, lastSlashIndex + 1)

\* lastSlashIndex === -1 ? token : token.slice(lastSlashIndex + 1)
BaseOf(token, lastSlashIndex) ==
    IF lastSlashIndex = -1 THEN token ELSE sliceFrom(token, lastSlashIndex + 1)

\* the directory a path token points into: the cursor of the directory named by
\* the part before the last '/', or NoNode where the builders return []
TokenDirNode(root, cwd, token) ==
    DirNodeAt(root, resolvePath(root, cwd,
                                DirArg(token, DirToken(token, lastIndexOf(token, "/")))))

\* the loop of buildPathAutocompleteSuggestions over the sorted children of dirNode
PrefixMatches(root, dirNode, prefixForRebuild, basePrefixLower, mode) ==
    LET Keep(childName) ==
            /\ basePrefixLower = <<>> \/ startsWith(toLowerCase(childName), basePrefixLower)
            /\ ModeAllows(root, dirNode, childName, mode)
    IN IF dirNode = NoNode THEN <<>>
       ELSE SuggestAll(root, dirNode, prefixForRebuild,
                       FilterSeq(getSortedChildren(root, dirNode), Keep))

buildPathAutocompleteSuggestions(root, cwd, token, mode) ==
    PrefixMatches(root, TokenDirNode(root, cwd, token),
                  PrefixForRebuild(token, lastIndexOf(token, "/")),
                  toLowerCase(BaseOf(token, lastIndexOf(token, "/"))), mode)

\* baseQuery.trim().length === 0 ? candidates.slice(0, 6) : rankCandidates(...)
RankedNames(baseQuery, candidates) ==
    IF Len(trim(baseQuery)) = 0 THEN Take(candidates, 6)
    ELSE rankCandidates(baseQuery, candidates, 6)

\* the candidates of buildPathFuzzySuggestions in dirNode, ranked and built
FuzzyMatches(root, dirNode, prefixForRebuild, baseQuery, mode) ==
    LET Keep(childName) == ModeAllows(root, dirNode, childName, mode)
    IN IF dirNode = NoNode THEN <<>>
       ELSE SuggestAll(root, dirNode, prefixForRebuild,
                       RankedNames(baseQuery,
                                   FilterSeq(getSortedChildren(root, dirNode), Keep)))

buildPathFuzzySuggestions(root, cwd, token, mode) ==
    FuzzyMatches(root, TokenDirNode(root, cwd, token),
                 PrefixForRebuild(token, lastIndexOf(token, "/")),
                 BaseOf(token, lastIndexOf(token, "/")), mode)

(***************************************************************************)
(* The display log and the reducer (Output.tsx, Shell.tsx).                *)
(* A log entry keeps its tag (type), what it shows (tag of the message,    *)
(* the text put into it, the listed items, the fixes) and, for a command   *)
(* echo, the path it was submitted from.                                   *)
(***************************************************************************)
Item(type, tag, text, items, fixes, path) ==
    [type |-> type, tag |-> tag, text |-> text, items |-> items,
     fixes |-> fixes, path |-> path]

defaultBanner == Item("banner", "init-banner", <<>>, <<>>, <<>>, NULL)

\* { command, label } with the label equal to the command
Fix(command) == [command |-> command, label |-> command]

FixLabelled(command, label) == [command |-> command, label |-> label]

\* state.history.filter((item) => item.type === 'banner')
Banners(history) ==
    LET IsBanner(item) == item.type = "banner" IN FilterSeq(history, IsBanner)

\* the reducer with SET_CWD replacing the top entry of cwds instead of pushing
shellReducerReplacesTop(state, action) ==
    CASE action.type = "ADD_HISTORY" ->
            [state EXCEPT !.history = Append(@, action.item)]
      [] action.type = "CLEAR_HISTORY" ->
            [state EXCEPT !.history =
                IF Len(Banners(@)) > 0 THEN Banners(@) ELSE <<defaultBanner>>]
      [] action.type = "ADD_COMMAND" ->
            [state EXCEPT !.commandHistory = Append(@, action.cmd)]
      [] action.type = "SET_CWD" ->
            [state EXCEPT !.currentCwd = action.path,
                          !.cwds = Append(SubSeq(@, 1, Len(@) - 1), action.path)]
      [] action.type = "GO_BACK" ->
            IF Len(state.cwds) <= 1 THEN state
            ELSE LET newCwds == SubSeq(state.cwds, 1, Len(state.cwds) - 1)
                 IN [state EXCEPT !.cwds = newCwds, !.currentCwd = newCwds[Len(newCwds)]]
      [] action.type = "REPLACE_STATE" -> action.newState
      [] OTHER -> state

\* the reducer with GO_BACK dropping every entry above the bottom one
shellReducerBackToFloor(state, action) ==
    CASE action.type = "ADD_HISTORY" ->
            [state EXCEPT !.history = Append(@, action.item)]
      [] action.type = "CLEAR_HISTORY" ->
            [state EXCEPT !.history =
                IF Len(Banners(@)) > 0 THEN Banners(@) ELSE <<defaultBanner>>]
      [] action.type = "ADD_COMMAND" ->
            [state EXCEPT !.commandHistory = Append(@, action.cmd)]
      [] action.type = "SET_CWD" ->
            [state EXCEPT !.currentCwd = action.path, !.cwds = Append(@, action.path)]
      [] action.type = "GO_BACK" ->
            IF Len(state.cwds) <= 1 THEN state
            ELSE [state EXCEPT !.cwds = <<state.cwds[1]>>, !.currentCwd = state.cwds[1]]
      [] action.type = "REPLACE_STATE" -> action.newState
      [] OTHER -> state

\* the reducer with CLEAR_HISTORY resetting the log to the default banner alone
shellReducerDropsBanners(state, action) ==
    CASE action.type = "ADD_HISTORY" ->
            [state EXCEPT !.history = Append(@, action.item)]
      [] action.type = "CLEAR_HISTORY" ->
            [state EXCEPT !.history = <<defaultBanner>>]
      [] action.type = "ADD_COMMAND" ->
            [state EXCEPT !.commandHistory = Append(@, action.cmd)]
      [] action.type = "SET_CWD" ->
            [state EXCEPT !.currentCwd = action.path, !.cwds = Append(@, action.path)]
      [] action.type = "GO_BACK" ->
            IF Len(state.cwds) <= 1 THEN state
            ELSE LET newCwds == SubSeq(state.cwds, 1, Len(state.cwds) - 1)
                 IN [state EXCEPT !.cwds = newCwds, !.currentCwd = newCwds[Len(newCwds)]]
      [] action.type = "REPLACE_STATE" -> action.newState
      [] OTHER -> state

\* the reducer with SET_CWD ignored when the path is already the working directory
shellReducerSkipsSamePath(state, action) ==
    CASE action.type = "ADD_HISTORY" ->
            [state EXCEPT !.history = Append(@, action.item)]
      [] action.type = "CLEAR_HISTORY" ->
            [state EXCEPT !.history =
                IF Len(Banners(@)) > 0 THEN Banners(@) ELSE <<defaultBanner>>]
      [] action.type = "ADD_COMMAND" ->
            [state EXCEPT !.commandHistory = Append(@, action.cmd)]
      [] action.type = "SET_CWD" ->
            IF action.path = state.currentCwd THEN state
            ELSE [state EXCEPT !.currentCwd = action.path, !.cwds = Append(@, action.path)]
      [] action.type = "GO_BACK" ->
            IF Len(state.cwds) <= 1 THEN state
            ELSE LET newCwds == SubSeq(state.cwds, 1, Len(state.cwds) - 1)
                 IN [state EXCEPT !.cwds = newCwds, !.currentCwd = newCwds[Len(newCwds)]]
      [] action.type = "REPLACE_STATE" -> action.newState
      [] OTHER -> state

\* shellReducer(state, action); state is [history, commandHistory, cwds, currentCwd]
shellReducer(state, action) ==
    CASE action.type = "ADD_HISTORY" ->
            [state EXCEPT !.history = Append(@, action.item)]
      [] action.type = "CLEAR_HISTORY" ->
            [state EXCEPT !.history =
                IF Len(Banners(@)) > 0 THEN Banners(@) ELSE <<defaultBanner>>]
      [] action.type = "ADD_COMMAND" ->
            [state EXCEPT !.commandHistory = Append(@, action.cmd)]
      [] action.type = "SET_CWD" ->
            [state EXCEPT !.currentCwd = action.path, !.cwds = Append(@, action.path)]
      [] action.type = "GO_BACK" ->
            IF Len(state.cwds) <= 1 THEN state
            ELSE LET newCwds == SubSeq(state.cwds, 1, Len(state.cwds) - 1)
                 IN [state EXCEPT !.cwds = newCwds, !.currentCwd = newCwds[Len(newCwds)]]
      [] action.type = "REPLACE_STATE" -> action.newState
      [] OTHER -> state

\* getInitialState with `props.initialCwd ?? '/'`: an empty initialCwd is kept
getInitialStateNullish(props) ==
    [history |-> IF props.initialHistory.given THEN props.initialHistory.items
                 ELSE <<defaultBanner>>,
     commandHistory |-> <<>>,
     cwds |-> <<IF props.initialCwd = NULL THEN <<"/">> ELSE props.initialCwd>>,
     currentCwd |-> IF props.initialCwd = NULL THEN <<"/">> ELSE props.initialCwd]

\* getInitialState(props); a prop that was not passed is NULL (initialCwd) or
\* has given = FALSE (initialHistory)
getInitialState(props) ==
    [history |-> IF props.initialHistory.given THEN props.initialHistory.items
                 ELSE <<defaultBanner>>,
     commandHistory |-> <<>>,
     cwds |-> <<IF Falsy(props.initialCwd) THEN <<"/">> ELSE props.initialCwd>>,
     currentCwd |-> IF Falsy(props.initialCwd) THEN <<"/">> ELSE props.initialCwd]

(***************************************************************************)
(* The component: the reducer state, the useState values, the refs, and    *)
(* what the last handler sent out (URL pushes, sidebar events, an uncaught *)
(* exception).                                                             *)
(***************************************************************************)
\* dispatch(action): the reducer runs on the state the earlier dispatches left
Dispatch(c, action) == [c EXCEPT !.state = shellReducer(@, action)]

addError(c, message, text, fixes) ==
    Dispatch(c, [type |-> "ADD_HISTORY",
                 item |-> Item("error", message, text, <<>>, Take(fixes, 4), NULL)])

addOutput(c, tag, text, items) ==
    Dispatch(c, [type |-> "ADD_HISTORY",
                 item |-> Item("output", tag, text, items, <<>>, NULL)])

RECURSIVE StripTrailingSlashes(_)
\* path.replace(/\/+$/, '')
StripTrailingSlashes(path) ==
    IF path # <<>> /\ path[Len(path)] = "/"
    THEN StripTrailingSlashes(SubSeq(path, 1, Len(path) - 1))
    ELSE path

\* pushUrl(path): window.history.pushState(null, '', normalized)
pushUrl(c, path) ==
    [c EXCEPT !.pushedUrls =
        Append(@, IF path = <<"/">> THEN <<"/">> ELSE StripTrailingSlashes(path))]

\* highlightSidebarSelection(directoryPath, filePath): the event's detail
highlightSidebarSelection(c, directoryPath, filePath) ==
    [c EXCEPT !.highlights =
        Append(@, [directoryPath |-> directoryPath, filePath |-> filePath])]

getParentDirPath(absolutePath) ==
    IF absolutePath = <<"/">> THEN <<"/">>
    ELSE LET parts == Segments(absolutePath)
             parent == SubSeq(parts, 1, Len(parts) - 1)
         IN IF Len(parent) = 0 THEN <<"/">> ELSE <<"/">> \o join(parent, <<"/">>)

FixesOf(verb, found) ==
    [i \in 1..Len(found) |->
        FixLabelled(verb \o found[i].insertText, verb \o found[i].label)]

\* the fixes of a failed path resolution: `${verb}${s.insertText}` per suggestion
PathFixes(root, cwd, target, mode, verb) ==
    FixesOf(verb, buildPathFuzzySuggestions(root, cwd, target, mode))

OrElse(fixes, fallback) == IF Len(fixes) > 0 THEN fixes ELSE fallback

(***************************************************************************)
(* The tree renderer (Shell.tsx).                                          *)
(***************************************************************************)
\* the box-drawing characters U+2514, U+251C, U+2500, U+2502
BoxUpRight == "+L"
BoxVertRight == "+T"
BoxHoriz == "+-"
BoxVert == "+|"

RECURSIVE TreeWalk(_, _, _, _, _, _, _)
RECURSIVE TreeWalkEntries(_, _, _, _, _, _, _)
\* walk(current, name, prefix, isLast, depth) of buildTreeText: the lines pushed
TreeWalk(root, current, name, prefix, isLast, depth, maxDepth) ==
    LET connector == IF depth = 0 THEN <<>>
                     ELSE IF isLast THEN <<BoxUpRight, BoxHoriz, BoxHoriz, " ">>
                     ELSE <<BoxVertRight, BoxHoriz, BoxHoriz, " ">>
        isDir == CursorType(root, current) = "dir"
        label == IF isDir THEN (IF name = <<"/">> THEN <<"/">> ELSE name \o <<"/">>)
                 ELSE name
        metaTitle == CursorTitle(root, current)
        title == IF ~Falsy(metaTitle) /\ metaTitle # name
                 THEN <<" ", EmDash, " ">> \o metaTitle ELSE <<>>
        line == prefix \o connector \o label \o title
        childPrefix == IF depth = 0 THEN <<>>
                       ELSE prefix \o (IF isLast THEN <<" ", " ", " ", " ">>
                                       ELSE <<BoxVert, " ", " ", " ">>)
    IN IF ~isDir \/ depth >= maxDepth THEN <<line>>
       ELSE <<line>> \o TreeWalkEntries(root, current, getSortedChildren(root, current),
                                        1, childPrefix, depth, maxDepth)

\* the loop over entries[i..] of a directory
TreeWalkEntries(root, current, entries, i, childPrefix, depth, maxDepth) ==
    IF i > Len(entries) THEN <<>>
    ELSE TreeWalk(root, Append(current, entries[i]), entries[i], childPrefix,
                  i = Len(entries), depth + 1, maxDepth)
         \o TreeWalkEntries(root, current, entries, i + 1, childPrefix, depth, maxDepth)

\* the renderer that stops one level above the bound
buildTreeTextExclusive(root, node, displayName, maxDepth) ==
    TreeWalk(root, node, displayName, <<>>, TRUE, 0, maxDepth - 1)

\* buildTreeText(node, displayName, maxDepth): the lines that are joined by '\n'
buildTreeText(root, node, displayName, maxDepth) ==
    TreeWalk(root, node, displayName, <<>>, TRUE, 0, maxDepth)

Digits == <<"0","1","2","3","4","5","6","7","8","9">>

IsDigit(c) == \E i \in 1..10 : Digits[i] = c

DigitValue(c) == (CHOOSE i \in 1..10 : Digits[i] = c) - 1

RECURSIVE DecimalValue(_, _)
DecimalValue(digits, acc) ==
    IF digits = <<>> THEN acc
    ELSE DecimalValue(Tail(digits), acc * 10 + DigitValue(Head(digits)))

NumberOfParts(negative, whole, frac) ==
    IF /\ \A i \in 1..Len(whole) : IsDigit(whole[i])
       /\ \A i \in 1..Len(frac) : IsDigit(frac[i])
       /\ Len(whole) + Len(frac) > 0
    THEN [finite |-> TRUE, negative |-> negative, whole |-> DecimalValue(whole, 0)]
    ELSE [finite |-> FALSE, negative |-> FALSE, whole |-> 0]

\* the literal without its sign: digits, optionally '.' and digits
NumberOfUnsigned(negative, body) ==
    IF indexOf(body, ".") = -1 THEN NumberOfParts(negative, body, <<>>)
    ELSE NumberOfParts(negative, sliceTo(body, indexOf(body, ".")),
                       sliceFrom(body, indexOf(body, ".") + 1))

NumberOfTrimmed(t) ==
    IF t = <<>> THEN [finite |-> TRUE, negative |-> FALSE, whole |-> 0]
    ELSE IF t[1] \in {"-", "+"} THEN NumberOfUnsigned(t[1] = "-", Tail(t))
    ELSE NumberOfUnsigned(FALSE, t)

\* Number(value) for a decimal literal (sign, digits, optional fraction; blank is 0):
\* [finite, negative, whole] where whole is the integer part; finite = FALSE for NaN
NumberOf(value) == NumberOfTrimmed(trim(value))

\* Number.isFinite(depth) ? Math.max(0, Math.floor(depth)) : null
DepthOf(depth) ==
    IF ~depth.finite THEN -1
    ELSE IF depth.negative THEN 0
    ELSE depth.whole

\* parseDepthArg(value): the depth, or -1 for null
parseDepthArg(value) ==
    IF Falsy(value) THEN -1 ELSE DepthOf(NumberOf(value))

RECURSIVE DecimalDigits(_)
DecimalDigits(n) ==
    IF n < 10 THEN <<Digits[n + 1]>> ELSE DecimalDigits(n \div 10) \o <<Digits[(n % 10) + 1]>>

\* `${maxDepth}`
NumberToString(n) == DecimalDigits(n)

\* args[i] with a 0-based index, NULL for undefined
Arg(args, i) == IF i + 1 <= Len(args) THEN args[i + 1] ELSE NULL

(***************************************************************************)
(* search (Shell.tsx).                                                     *)
(***************************************************************************)
\* node.meta.tags?.some((t) => t.includes(term))
SomeTagIncludes(tags, term) == \E i \in 1..Len(tags) : includes(tags[i], term)

RECURSIVE SearchWalk(_, _, _, _)
RECURSIVE SearchWalkChildren(_, _, _, _, _)
\* walk(node, path): the paths pushed on results, in order
SearchWalk(root, node, path, term) ==
    IF root[node].type = "file"
    THEN IF \/ includes(toLowerCase(root[node].name), term)
            \/ (root[node].title # NULL /\ includes(toLowerCase(root[node].title), term))
            \/ SomeTagIncludes(root[node].tags, term)
         THEN <<path>> ELSE <<>>
    ELSE (IF includes(toLowerCase(root[node].name), term) THEN <<path>> ELSE <<>>)
         \o SearchWalkChildren(root, node, path, term, 1)

\* for (const childName in node.children), from the i-th child on
SearchWalkChildren(root, node, path, term, i) ==
    IF i > Len(root[node].children) THEN <<>>
    ELSE LET childName == root[node].children[i]
             childPath == IF path = <<"/">> THEN <<"/">> \o childName
                          ELSE path \o <<"/">> \o childName
         IN SearchWalk(root, Append(node, childName), childPath, term)
            \o SearchWalkChildren(root, node, path, term, i + 1)

(***************************************************************************)
(* execute(raw) (Shell.tsx).  `c` holds the values the handler closed over *)
(* (state, helpWizardStep, ...: what the last render saw); `c1` is the     *)
(* component as the dispatches and setters made so far leave it.           *)
(***************************************************************************)
\* the wizard without `helpWizardSeenRef.current = true`
WizardAnswerForgets(c, c1, isYes, isNo) ==
    IF ~isYes /\ ~isNo
    THEN addOutput(c1, "help-wizard: Please answer: Yes/No", <<>>, <<>>)
    ELSE IF c.helpWizardStep = "start"
    THEN IF isNo
         THEN [addOutput(c1, "help-wizard: I understand. Take your time!", <<>>, <<>>)
                 EXCEPT !.helpWizardStep = "none"]
         ELSE [addOutput(c1, "help-wizard: do you have any experience? Yes/No", <<>>, <<>>)
                 EXCEPT !.helpWizardStep = "experience"]
    ELSE IF c.helpWizardStep = "experience"
    THEN IF isYes
         THEN [addOutput(c1, "help-wizard: Splendid!", <<>>, <<>>)
                 EXCEPT !.helpWizardStep = "none"]
         ELSE [addOutput(c1, "help-wizard: No worries, we'll start simple", <<>>, <<>>)
                 EXCEPT !.helpWizardStep = "none"]
    ELSE c1

\* the answers with a yes to the first question ending the detour at once
WizardAnswerEndsAtOnce(c, c1, isYes, isNo) ==
    IF ~isYes /\ ~isNo
    THEN addOutput(c1, "help-wizard: Please answer: Yes/No", <<>>, <<>>)
    ELSE IF c.helpWizardStep = "start" /\ isNo
    THEN [addOutput(c1, "help-wizard: I understand. Take your time!", <<>>, <<>>)
            EXCEPT !.helpWizardStep = "none"]
    ELSE IF isYes
    THEN [addOutput([c1 EXCEPT !.helpWizardSeen = TRUE], "help-wizard: Splendid!", <<>>, <<>>)
            EXCEPT !.helpWizardStep = "none"]
    ELSE [addOutput(c1, "help-wizard: No worries, we'll start simple", <<>>, <<>>)
            EXCEPT !.helpWizardStep = "none"]

\* the answers of the wizard: reprompt, decline, accept, the two endings
WizardAnswer(c, c1, isYes, isNo) ==
    IF ~isYes /\ ~isNo
    THEN addOutput(c1, "help-wizard: Please answer: Yes/No", <<>>, <<>>)
    ELSE IF c.helpWizardStep = "start"
    THEN IF isNo
         THEN [addOutput(c1, "help-wizard: I understand. Take your time!", <<>>, <<>>)
                 EXCEPT !.helpWizardStep = "none"]
         ELSE [addOutput([c1 EXCEPT !.helpWizardSeen = TRUE],
                         "help-wizard: do you have any experience? Yes/No", <<>>, <<>>)
                 EXCEPT !.helpWizardStep = "experience"]
    ELSE IF c.helpWizardStep = "experience"
    THEN IF isYes
         THEN [addOutput(c1, "help-wizard: Splendid!", <<>>, <<>>)
                 EXCEPT !.helpWizardStep = "none"]
         ELSE [addOutput(c1, "help-wizard: No worries, we'll start simple", <<>>, <<>>)
                 EXCEPT !.helpWizardStep = "none"]
    ELSE c1

\* the help wizard: `if (helpWizardStep !== 'none') { ... }`
runHelpWizard(c, c1, raw) ==
    WizardAnswer(c, c1,
                 toLowerCase(trim(raw)) \in {<<"y">>, <<"y","e","s">>},
                 toLowerCase(trim(raw)) \in {<<"n">>, <<"n","o">>})

\* case 'help'
runHelp(c, c1) ==
    IF ~c1.helpWizardSeen /\ c.helpWizardStep = "none"
    THEN addOutput([c1 EXCEPT !.helpWizardStep = "start"],
                   "help-wizard: May I trouble you with a question? Yes/No", <<>>, <<>>)
    ELSE addOutput(c1, "help: Navigation, Discovery, Reading, System", <<>>, <<>>)

\* case 'clear'
runClear(c1) == Dispatch(c1, [type |-> "CLEAR_HISTORY"])

runHome(c1) ==
    pushUrl(Dispatch(c1, [type |-> "SET_CWD", path |-> <<"/">>]), <<"/">>)

CdNotFound(c1, root, cwd, target) ==
    addError(c1, "cd: no such file or directory: ${target}", target,
             OrElse(PathFixes(root, cwd, target, "dir", CD \o <<" ">>),
                    <<Fix(LS), Fix(PWD)>>))

\* case 'cd' without the test of the node's type
CdToNodeAnyKind(c1, root, cwd, target, newPath, node) ==
    IF node = NoNode THEN CdNotFound(c1, root, cwd, target)
    ELSE pushUrl(Dispatch(c1, [type |-> "SET_CWD", path |-> newPath]), newPath)

\* case 'cd' from `const node = getNodeAtPath(fs.root, newPath)` on
CdToNode(c1, root, cwd, target, newPath, node) ==
    IF node = NoNode THEN CdNotFound(c1, root, cwd, target)
    ELSE IF CursorType(root, node) # "dir"
    THEN addError(c1, "cd: not a directory: ${target}", target,
                  <<Fix(OPEN \o <<" ">> \o target), Fix(CAT \o <<" ">> \o target)>>)
    ELSE pushUrl(Dispatch(c1, [type |-> "SET_CWD", path |-> newPath]), newPath)

\* case 'cd' from `if (!newPath)` on
CdToPath(c1, root, cwd, target, newPath) ==
    IF newPath = NULL THEN CdNotFound(c1, root, cwd, target)
    ELSE CdToNode(c1, root, cwd, target, newPath, getNodeAtPath(root, newPath))

\* args[0] || '/'
CdTarget(args) == IF Falsy(Arg(args, 0)) THEN <<"/">> ELSE Arg(args, 0)

\* case 'cd'
runCd(c, c1, root, args) ==
    CdToPath(c1, root, c.state.currentCwd, CdTarget(args),
             resolvePath(root, c.state.currentCwd, CdTarget(args)))

\* the names printed by ls: `${name}/` for a directory
LsNames(root, node, names) ==
    [i \in 1..Len(names) |->
        names[i] \o (IF root[Append(node, names[i])].type = "dir" THEN <<"/">> ELSE <<>>)]

LsOfNode(c, c1, root, node) ==
    IF node = NoNode \/ CursorType(root, node) # "dir"
    THEN addError(c1, "ls: not a directory: ${state.currentCwd}", c.state.currentCwd, <<>>)
    ELSE addOutput(c1, "ls", <<>>, LsNames(root, node, getSortedChildren(root, node)))

\* case 'ls'
runLs(c, c1, root) == LsOfNode(c, c1, root, getNodeAtPath(root, c.state.currentCwd))

\* case 'pwd'
runPwd(c, c1) == addOutput(c1, "pwd", c.state.currentCwd, <<>>)

\* case 'back' with the floor treated as a visit of '/'
runBackGoesHome(c, c1) ==
    IF Len(c.state.cwds) <= 1
    THEN pushUrl(Dispatch(c1, [type |-> "SET_CWD", path |-> <<"/">>]), <<"/">>)
    ELSE LET before == c.state.cwds[Len(c.state.cwds) - 1]
             nextPath == IF Falsy(before) THEN <<"/">> ELSE before
         IN pushUrl(Dispatch(c1, [type |-> "GO_BACK"]), nextPath)

\* case 'back'
runBack(c, c1) ==
    IF Len(c.state.cwds) <= 1
    THEN addError(c1, "Already at root of session.", <<>>, <<>>)
    ELSE LET before == c.state.cwds[Len(c.state.cwds) - 1]
             nextPath == IF Falsy(before) THEN <<"/">> ELSE before
         IN pushUrl(Dispatch(c1, [type |-> "GO_BACK"]), nextPath)

TreeArgsOf(argc, a0, a1, a2, d0, d1) ==
    LET plain == [usage |-> FALSE, maxDepth |-> 4, depthWasExplicit |-> FALSE,
                  targetPathArg |-> NULL]
    IN IF a0 = <<"-","L">> \/ a0 = <<"-","-","d","e","p","t","h">>
       THEN IF d1 = -1
            THEN [plain EXCEPT !.usage = TRUE, !.depthWasExplicit = TRUE]
            ELSE [plain EXCEPT !.maxDepth = d1, !.depthWasExplicit = TRUE,
                               !.targetPathArg = a2]
       ELSE IF argc = 1
       THEN IF d0 # -1
            THEN [plain EXCEPT !.maxDepth = d0, !.depthWasExplicit = TRUE]
            ELSE [plain EXCEPT !.targetPathArg = a0]
       ELSE IF argc >= 2
       THEN IF d0 # -1
            THEN [plain EXCEPT !.maxDepth = d0, !.depthWasExplicit = TRUE,
                               !.targetPathArg = a1]
            ELSE IF d1 # -1
            THEN [plain EXCEPT !.maxDepth = d1, !.depthWasExplicit = TRUE,
                               !.targetPathArg = a0]
            ELSE [plain EXCEPT !.targetPathArg = a0]
       ELSE plain

\* the argument forms of runTree: [usage, maxDepth, depthWasExplicit, targetPathArg]
TreeArgs(args) ==
    TreeArgsOf(Len(args), Arg(args, 0), Arg(args, 1), Arg(args, 2),
               parseDepthArg(Arg(args, 0)), parseDepthArg(Arg(args, 1)))

\* depthWasExplicit ? `tree -L ${maxDepth} ` : 'tree '
TreeBasePrefix(t) ==
    IF t.depthWasExplicit
    THEN TREE \o <<" ","-","L"," ">> \o NumberToString(t.maxDepth) \o <<" ">>
    ELSE TREE \o <<" ">>

\* the error of runTree's two not-found exits; the message shows
\* targetPathArg ?? resolvedPath
TreeNotFound(c1, root, cwd, t, resolvedPath) ==
    addError(c1, "tree: no such file or directory: ${targetPathArg}",
             IF t.targetPathArg # NULL THEN t.targetPathArg ELSE resolvedPath,
             OrElse(IF ~Falsy(t.targetPathArg)
                    THEN PathFixes(root, cwd, t.targetPathArg, "both", TreeBasePrefix(t))
                    ELSE <<>>,
                    <<Fix(TREE), Fix(LS)>>))

\* resolvedPath === '/' ? '/' : resolvedPath.split('/').filter(Boolean).pop() ?? resolvedPath
TreeDisplayName(resolvedPath, parts) ==
    IF resolvedPath = <<"/">> THEN <<"/">>
    ELSE IF Len(parts) > 0 THEN parts[Len(parts)] ELSE resolvedPath

TreeOfNode(c1, root, cwd, t, resolvedPath, node) ==
    IF node = NoNode THEN TreeNotFound(c1, root, cwd, t, resolvedPath)
    ELSE addOutput(c1, "tree", <<>>,
                   buildTreeText(root, node,
                                 TreeDisplayName(resolvedPath, Segments(resolvedPath)),
                                 t.maxDepth))

TreeOfPath(c1, root, cwd, t, resolvedPath) ==
    IF resolvedPath = NULL THEN TreeNotFound(c1, root, cwd, t, resolvedPath)
    ELSE TreeOfNode(c1, root, cwd, t, resolvedPath, getNodeAtPath(root, resolvedPath))

TreeOfArgs(c1, root, cwd, t) ==
    IF t.usage
    THEN addError(c1, "Usage: tree [-L depth] [path]", <<>>,
                  <<Fix(TREE), Fix(TREE \o <<" ","-","L"," ","4">>)>>)
    ELSE TreeOfPath(c1, root, cwd, t,
                    IF ~Falsy(t.targetPathArg)
                    THEN resolvePath(root, cwd, t.targetPathArg) ELSE cwd)

\* runTree()
runTree(c, c1, root, args) == TreeOfArgs(c1, root, c.state.currentCwd, TreeArgs(args))

\* case 'summary'
runSummary(c1) == addOutput(c1, "summary: Quick start", <<>>, <<>>)

\* file.content || '(Empty file)'
ContentOrEmpty(root, node) ==
    IF Falsy(CursorContent(root, node)) THEN <<"(","E","m","p","t","y"," ","f","i","l","e",")">>
    ELSE CursorContent(root, node)

\* `/${file.slug}`
SlugUrl(root, node) ==
    <<"/">> \o (IF CursorSlug(root, node) = NULL THEN <<"u","n","d","e","f","i","n","e","d">>
                ELSE CursorSlug(root, node))

OpenNotFound(c2, root, cwd, target) ==
    addError(c2, "open: ${target}: No such file or directory", target,
             OrElse(PathFixes(root, cwd, target, "both", OPEN \o <<" ">>),
                    <<Fix(LS), Fix(TREE)>>))

\* runOpen() from `const node = getNodeAtPath(fs.root, path)` on
OpenNode(c2, root, cwd, target, path, node) ==
    IF node = NoNode THEN OpenNotFound(c2, root, cwd, target)
    ELSE IF CursorType(root, node) = "dir"
    THEN highlightSidebarSelection(
             pushUrl(Dispatch(c2, [type |-> "SET_CWD", path |-> path]), path),
             path, c2.lastOpenedFilePath)
    ELSE highlightSidebarSelection(
             [pushUrl(addOutput(c2, "open", ContentOrEmpty(root, node), <<>>),
                      SlugUrl(root, node))
                 EXCEPT !.lastOpenedFilePath = path],
             getParentDirPath(path), path)

\* runOpen() from `if (!path)` on
OpenPath(c2, root, cwd, target, path) ==
    IF path = NULL THEN OpenNotFound(c2, root, cwd, target)
    ELSE OpenNode(c2, root, cwd, target, path, getNodeAtPath(root, path))

OpenTarget(c2, root, cwd, target) ==
    IF Falsy(target)
    THEN addError(c2, "Usage: open <path>", <<>>,
                  <<FixLabelled(OPEN \o <<" ">>, OPEN \o <<" ","<","p","a","t","h",">">>),
                    Fix(LS), Fix(TREE)>>)
    ELSE OpenPath(c2, root, cwd, target, resolvePath(root, cwd, target))

\* case 'open' without setHasUsedOpen(true)
runOpenKeepsChips(c, c1, root, args) ==
    OpenTarget(c1, root, c.state.currentCwd, Arg(args, 0))

\* case 'open': setHasUsedOpen(true); runOpen()
runOpen(c, c1, root, args) ==
    OpenTarget([c1 EXCEPT !.hasUsedOpen = TRUE], root, c.state.currentCwd, Arg(args, 0))

CatNotFound(c1, root, cwd, target) ==
    addError(c1, "cat: ${target}: No such file", target,
             OrElse(PathFixes(root, cwd, target, "file", CAT \o <<" ">>),
                    <<Fix(LS),
                      FixLabelled(OPEN \o <<" ">>, OPEN \o <<" ","<","p","a","t","h",">">>)>>))

\* case 'cat' without the `if (node.type === 'dir')` exit
CatNodeReadsDirs(c1, root, cwd, target, node) ==
    IF node = NoNode THEN CatNotFound(c1, root, cwd, target)
    ELSE addOutput(c1, "cat", ContentOrEmpty(root, node), <<>>)

\* case 'cat' with the file branch of runOpen: the address follows the file
CatNodeOpens(c1, root, cwd, target, node) ==
    IF node = NoNode THEN CatNotFound(c1, root, cwd, target)
    ELSE IF CursorType(root, node) = "dir"
    THEN addError(c1, "cat: ${target}: Is a directory", target,
                  <<Fix(LS \o <<" ">> \o target), Fix(OPEN \o <<" ">> \o target)>>)
    ELSE pushUrl(addOutput(c1, "cat", ContentOrEmpty(root, node), <<>>),
                 SlugUrl(root, node))

\* case 'cat' from `const node = getNodeAtPath(fs.root, path)` on
CatNode(c1, root, cwd, target, node) ==
    IF node = NoNode THEN CatNotFound(c1, root, cwd, target)
    ELSE IF CursorType(root, node) = "dir"
    THEN addError(c1, "cat: ${target}: Is a directory", target,
                  <<Fix(LS \o <<" ">> \o target), Fix(OPEN \o <<" ">> \o target)>>)
    ELSE addOutput(c1, "cat", ContentOrEmpty(root, node), <<>>)

\* case 'cat' from `if (!path)` on
CatPath(c1, root, cwd, target, path) ==
    IF path = NULL THEN CatNotFound(c1, root, cwd, target)
    ELSE CatNode(c1, root, cwd, target, getNodeAtPath(root, path))

CatTarget(c1, root, cwd, target) ==
    IF Falsy(target)
    THEN addError(c1, "Usage: cat <filename>", <<>>,
                  <<FixLabelled(CAT \o <<" ">>,
                                CAT \o <<" ","<","f","i","l","e","n","a","m","e",">">>),
                    Fix(LS),
                    FixLabelled(OPEN \o <<" ">>, OPEN \o <<" ","<","p","a","t","h",">">>)>>)
    ELSE CatPath(c1, root, cwd, target, resolvePath(root, cwd, target))

\* case 'cat'
runCat(c, c1, root, args) == CatTarget(c1, root, c.state.currentCwd, Arg(args, 0))

SearchResults(c1, term, results) ==
    IF Len(results) = 0
    THEN addOutput(c1, "search: No results for ${term}", term, <<>>)
    ELSE addOutput(c1, "search", term, results)

SearchTerm(c1, root, term) ==
    IF Falsy(term)
    THEN addError(c1, "Usage: search <term>", <<>>,
                  <<FixLabelled(SEARCH \o <<" ">>, SEARCH \o <<" ","<","t","e","r","m",">">>),
                    Fix(SUMMARY), Fix(HELP)>>)
    ELSE SearchResults(c1, term, SearchWalk(root, <<>>, <<"/">>, term))

\* case 'search'
runSearch(c1, root, args) == SearchTerm(c1, root, toLowerCase(join(args, <<" ">>)))

\* firstSpace === -1 ? '' : rawTrimStart.slice(firstSpace)
RestOf(rawTrimStart) ==
    IF indexOf(rawTrimStart, " ") = -1 THEN <<>>
    ELSE sliceFrom(rawTrimStart, indexOf(rawTrimStart, " "))

\* candidates.length > 0 ? candidates.map(...) : [{ command: 'help', label: 'help' }]
UnknownFixes(candidates, rest) ==
    IF Len(candidates) > 0
    THEN [i \in 1..Len(candidates) |-> Fix(candidates[i] \o rest)]
    ELSE <<Fix(HELP)>>

\* default: the command is not in the switch
runUnknown(c1, raw, commandName) ==
    IF rankCandidatesThrows(commandName)
    THEN [c1 EXCEPT !.uncaught = TRUE]
    ELSE addError(c1, "Command '${commandName}' not found.", commandName,
                  UnknownFixes(rankCandidates(commandName, AUTOCOMPLETE_COMMANDS, 4),
                               RestOf(trimStart(raw))))

\* switch (commandName)
runCommand(c, c1, root, raw, commandName, args) ==
    CASE commandName = HELP -> runHelp(c, c1)
      [] commandName = CLEAR -> runClear(c1)
      [] commandName = HOME -> runHome(c1)
      [] commandName = CD -> runCd(c, c1, root, args)
      [] commandName = LS -> runLs(c, c1, root)
      [] commandName = PWD -> runPwd(c, c1)
      [] commandName = BACK -> runBack(c, c1)
      [] commandName = TREE -> runTree(c, c1, root, args)
      [] commandName = OPEN -> runOpen(c, c1, root, args)
      [] commandName = CAT -> runCat(c, c1, root, args)
      [] commandName = SEARCH -> runSearch(c1, root, args)
      [] commandName = SUMMARY -> runSummary(c1)
      [] OTHER -> runUnknown(c1, raw, commandName)

\* execute(raw) without the `if (helpWizardStep !== 'none')` block
executeParsedUngated(c, c1, props, raw, parsed) ==
    IF parsed.error # "" THEN addError(c1, parsed.error, <<>>, <<>>)
    ELSE IF parsed.isNull THEN c1
    ELSE IF ~props.fsLoaded THEN addError(c1, "FileSystem not loaded.", <<>>, <<>>)
    ELSE runCommand(c, c1, props.fs, raw, parsed.commandName, parsed.args)

\* execute(raw) after the echo: c1 is the component once the echo, ADD_COMMAND and
\* setHistoryPointer(null) are done, parsed is parseCommand(raw)
executeParsed(c, c1, props, raw, parsed) ==
    IF parsed.error # "" THEN addError(c1, parsed.error, <<>>, <<>>)
    ELSE IF parsed.isNull THEN c1
    ELSE IF c.helpWizardStep # "none" THEN runHelpWizard(c, c1, raw)
    ELSE IF ~props.fsLoaded THEN addError(c1, "FileSystem not loaded.", <<>>, <<>>)
    ELSE runCommand(c, c1, props.fs, raw, parsed.commandName, parsed.args)

\* the echo tagged with the root instead of state.currentCwd
EchoedAtRoot(c0, raw) ==
    [Dispatch(Dispatch(c0, [type |-> "ADD_HISTORY",
                            item |-> Item("command", "echo", raw, <<>>, <<>>, <<"/">>)]),
              [type |-> "ADD_COMMAND", cmd |-> raw])
        EXCEPT !.historyPointer = -1]

\* the echo of the submitted line, ADD_COMMAND, setHistoryPointer(null)
Echoed(c0, raw) ==
    [Dispatch(Dispatch(c0, [type |-> "ADD_HISTORY",
                            item |-> Item("command", "echo", raw, <<>>, <<>>,
                                          c0.state.currentCwd)]),
              [type |-> "ADD_COMMAND", cmd |-> raw])
        EXCEPT !.historyPointer = -1]

\* a handler starts with nothing sent out
Started(c) == [c EXCEPT !.pushedUrls = <<>>, !.highlights = <<>>, !.uncaught = FALSE]

\* execute(raw) run on the component c under the props
execute(c, props, raw) ==
    IF Len(trim(raw)) = 0 THEN Started(c)
    ELSE executeParsed(c, Echoed(Started(c), raw), props, raw, parseCommand(raw))

(***************************************************************************)
(* Autocomplete (Shell.tsx, the useMemo).                                  *)
(***************************************************************************)
AUTOCOMPLETE_ALIASES == ALIASES

NoSuggestions(beforeToken, quoteChar, tokenPrefix) ==
    [suggestions |-> <<>>, ghostSuffix |-> <<>>, beforeToken |-> beforeToken,
     quoteChar |-> quoteChar, tokenPrefix |-> tokenPrefix, mode |-> "none"]

\* input.match(/(\S*)$/)[1]: the run of non-blank characters that ends the input
LastToken(inp) ==
    LET n == Len(inp)
        start == IF \E i \in 1..n : IsSpace(inp[i])
                 THEN (CHOOSE i \in 1..n :
                          IsSpace(inp[i]) /\ \A j \in (i + 1)..n : ~IsSpace(inp[j])) + 1
                 ELSE 1
    IN SubSeq(inp, start, n)

\* trimmedStart.split(/\s+/)[0]
FirstWord(trimmedStart) ==
    IF \E i \in 1..Len(trimmedStart) : IsSpace(trimmedStart[i])
    THEN sliceTo(trimmedStart,
                 (CHOOSE i \in 1..Len(trimmedStart) :
                     /\ IsSpace(trimmedStart[i])
                     /\ \A j \in 1..(i - 1) : ~IsSpace(trimmedStart[j])) - 1)
    ELSE trimmedStart

\* the completion mode of a command: 'dir', 'file', 'both', or "null"
PathModeOf(commandName) ==
    IF commandName = CD THEN "dir"
    ELSE IF commandName = CAT THEN "file"
    ELSE IF commandName = OPEN THEN "both"
    ELSE IF commandName = TREE THEN "both"
    ELSE "null"

\* the autocomplete value for the input `inp`
autocomplete(stepOfWizard, inp, props, cwd) ==
    LET trimmedStart == trimStart(inp)
        rawToken == LastToken(inp)
        beforeToken == sliceTo(inp, Len(inp) - Len(rawToken))
        quoted == startsWith(rawToken, <<"\"">>) \/ startsWith(rawToken, <<"'">>)
        quoteChar == IF quoted THEN <<rawToken[1]>> ELSE NULL
        tokenPrefix == IF quoted THEN sliceFrom(rawToken, 1) ELSE rawToken
        tokenPrefixLower == toLowerCase(tokenPrefix)
        isCommandPosition == ~\E i \in 1..Len(trimmedStart) : IsSpace(trimmedStart[i])
        StartsWithPrefix(name) == startsWith(name, tokenPrefixLower)
        commands == FilterSeq(AUTOCOMPLETE_COMMANDS, StartsWithPrefix)
        rawCmdToken == toLowerCase(FirstWord(trimmedStart))
        aliased == PropertyRead(AUTOCOMPLETE_ALIASES, rawCmdToken)
        commandName == IF aliased # NULL THEN aliased ELSE rawCmdToken
        pathMode == PathModeOf(commandName)
        paths == buildPathAutocompleteSuggestions(props.fs, cwd, tokenPrefix, pathMode)
    IN IF stepOfWizard # "none" THEN NoSuggestions(<<>>, NULL, <<>>)
       ELSE IF Len(trimmedStart) = 0 THEN NoSuggestions(<<>>, NULL, <<>>)
       ELSE IF isCommandPosition
       THEN [suggestions |-> [i \in 1..Len(commands) |->
                                [kind |-> "command", insertText |-> commands[i],
                                 label |-> commands[i]]],
             ghostSuffix |-> IF Len(commands) > 0
                             THEN sliceFrom(commands[1], Len(tokenPrefix)) ELSE <<>>,
             beforeToken |-> beforeToken, quoteChar |-> quoteChar,
             tokenPrefix |-> tokenPrefix, mode |-> "command"]
       ELSE IF pathMode = "null" \/ ~props.fsLoaded
       THEN NoSuggestions(beforeToken, quoteChar, tokenPrefix)
       ELSE [suggestions |-> paths,
             ghostSuffix |-> IF Len(paths) > 0
                             THEN sliceFrom(paths[1].insertText, Len(tokenPrefix)) ELSE <<>>,
             beforeToken |-> beforeToken, quoteChar |-> quoteChar,
             tokenPrefix |-> tokenPrefix, mode |-> "path"]

(***************************************************************************)
(* The prompt's keys (Shell.tsx): Tab accepts the top suggestion, the      *)
(* arrows walk the submitted lines.  Each returns what the handler sets.   *)
(***************************************************************************)
\* autocomplete.quoteChar ?? ''
QuoteOf(ac) == IF ac.quoteChar = NULL THEN <<>> ELSE ac.quoteChar

\* mode === 'command' ? true : top.kind !== 'dir' && !top.insertText.endsWith('/')
ShouldAppendSpace(ac) ==
    IF ac.mode = "command" THEN TRUE
    ELSE ac.suggestions[1].kind # "dir" /\ ~endsWith(ac.suggestions[1].insertText, <<"/">>)

\* the accept action with a space appended after every completion
handleTabCompleteAlwaysSpace(ac, inp) ==
    IF Len(ac.suggestions) = 0 THEN inp
    ELSE ac.beforeToken \o QuoteOf(ac) \o ac.suggestions[1].insertText \o <<" ">>

\* handleTabComplete(): the input it sets, given the autocomplete value ac
handleTabComplete(ac, inp) ==
    IF Len(ac.suggestions) = 0 THEN inp
    ELSE ac.beforeToken \o QuoteOf(ac) \o ac.suggestions[1].insertText
            \o (IF ShouldAppendSpace(ac) THEN <<" ">> ELSE <<>>)

\* what a handler leaves in the pointer and the prompt
Shown(pointer, inp) == [historyPointer |-> pointer, input |-> inp]

\* Math.max(0, newIndex - 1)
Max0(n) == IF n < 0 THEN 0 ELSE n

\* the arrows with the up arrow wrapping from the oldest line to no line
handleHistoryUpWraps(history, pointer, inp, direction) ==
    IF Len(history) = 0 THEN Shown(pointer, inp)
    ELSE IF direction = "up"
    THEN (IF pointer = -1 THEN Shown(Len(history) - 1, history[Len(history)])
          ELSE IF pointer = 0 THEN Shown(-1, <<>>)
          ELSE Shown(pointer - 1, history[pointer]))
    ELSE IF pointer = -1 THEN Shown(pointer, inp)
    ELSE IF pointer + 1 >= Len(history) THEN Shown(-1, <<>>)
    ELSE Shown(pointer + 1, history[pointer + 2])

\* handleHistory(direction): the pointer (0-based, -1 for null) and the input it
\* sets, given state.commandHistory
handleHistory(history, pointer, inp, direction) ==
    IF Len(history) = 0 THEN Shown(pointer, inp)
    ELSE IF direction = "up"
    THEN (IF pointer = -1 THEN Shown(Len(history) - 1, history[Len(history)])
          ELSE Shown(Max0(pointer - 1), history[Max0(pointer - 1) + 1]))
    ELSE IF pointer = -1 THEN Shown(pointer, inp)
    ELSE IF pointer + 1 >= Len(history) THEN Shown(-1, <<>>)
    ELSE Shown(pointer + 1, history[pointer + 2])

(***************************************************************************)
(* The session.                                                            *)
(***************************************************************************)
VARIABLES
    props,               \* what the page passes: fs, initialCwd, initialHistory
    history,             \* state.history: the display log
    commandHistory,      \* state.commandHistory: the submitted lines
    cwds,                \* state.cwds: the visited-path stack
    currentCwd,          \* state.currentCwd
    input,               \* the text in the prompt
    historyPointer,      \* index into commandHistory (0-based), -1 for null
    hasUsedOpen,
    helpWizardStep,      \* 'none' | 'start' | 'experience'
    helpWizardSeen,      \* helpWizardSeenRef.current
    lastOpenedFilePath,  \* lastOpenedFilePathRef.current
    pushedUrls,          \* the pushState calls of the last execute
    highlights,          \* the sidebar events of the last execute
    uncaught,            \* the last execute ended in an uncaught exception
    call                 \* a helper function called on its own: arguments and result

vars ==
    <<props, history, commandHistory, cwds, currentCwd, input, historyPointer,
      hasUsedOpen, helpWizardStep, helpWizardSeen, lastOpenedFilePath, pushedUrls,
      highlights, uncaught, call>>

\* the number of lines a session submits: of any kind, of navigation, around the detour
MaxCmds == 2
MaxNavCmds == 4
MaxWizardCmds == 4
MaxReadCmds == 2

L_help == <<"h","e","l","p">>
L_yes == <<"Y","e","s">>
L_no == <<"n">>
L_cd_books == <<"c","d"," ","b","o","o","k","s">>
L_cd_sicp == <<"c","d"," ","s","i","c","p">>
L_cd_up == <<"c","d"," ",".",".">>
L_cd_dot == <<"c","d"," ",".">>
L_pwd == <<"p","w","d">>
L_back == <<"b","a","c","k">>
L_home == <<"h","o","m","e">>
L_clear == <<"c","l","e","a","r">>
L_open_dune == <<"o","p","e","n"," ","d","u","n","e">>
L_unclosed == <<"c","d"," ","\"","b","o","o","k","s">>
L_lls == <<"l","l","s"," ","-","a">>
L_cd_missing == <<"c","d"," ","b","o","k","s">>
L_cd_file == <<"c","d"," ","a","b","o","u","t">>
L_cat_dir == <<"c","a","t"," ","b","o","o","k","s">>
L_cat == <<"c","a","t">>
L_constructor == <<"c","o","n","s","t","r","u","c","t","o","r">>
L_blank == <<" "," ">>
L_lls_tab == <<"l","l","s","\t","-","a">>
L_none == <<"q","q","q">>
L_cat_up == <<"c","a","t"," ",".",".">>
L_cat_about == <<"c","a","t"," ","/","a","b","o","u","t">>
L_cat_missing == <<"c","a","t"," ","n","o","p","e">>
L_cat_intro == <<"c","a","t"," ","/","b","o","o","k","s","/","s","i","c","p","/","i","n","t","r","o">>
L_open_about == <<"o","p","e","n"," ","/","a","b","o","u","t">>
L_open_missing == <<"o","p","e","n"," ","n","o","p","e">>
L_open == <<"o","p","e","n">>
L_open_up == <<"o","p","e","n"," ",".",".">>
L_open_constructor == <<"o","p","e","n"," ","c","o","n","s","t","r","u","c","t","o","r">>
L_search_dune == <<"s","e","a","r","c","h"," ","D","U","N","E">>
L_search_theme == <<"s","e","a","r","c","h"," ","t","h","e","m","e">>
L_search_scifi == <<"s","e","a","r","c","h"," ","s","c","i","f","i">>
L_search_title == <<"s","e","a","r","c","h"," ","C","o","l","l","e","c","t","i","o","n">>
L_search_none == <<"s","e","a","r","c","h"," ","z","z","z">>
L_search == <<"s","e","a","r","c","h">>

\* the lines that are typed
Lines ==
    { L_help, L_yes, L_no, L_cd_books, L_cd_sicp,
      L_cd_up, L_pwd, L_back, L_home, L_clear,
      L_open_dune, L_unclosed, L_lls, L_cd_missing, L_cd_file,
      L_cat_dir, L_cat, L_constructor, L_blank, L_lls_tab, L_none }

\* the lines that move through the tree
NavLines ==
    { L_cd_books, L_cd_sicp, L_cd_up, L_cd_dot, L_home, L_open_dune, L_back, L_pwd, L_clear }

\* the lines that read: cat, open and search, and one that moves
ReadLines ==
    { L_cd_books, L_cat_dir, L_cat_up, L_cat_about, L_cat_intro, L_cat, L_cat_missing,
      L_open_dune, L_open_about, L_open_missing, L_open, L_open_up, L_open_constructor,
      L_search_dune, L_search_theme, L_search_scifi, L_search_title, L_search_none,
      L_search }

\* the lines around the help detour
WizardLines == { L_help, L_yes, L_no, L_cd_books, L_back, L_clear, L_open_dune }

P_books == <<"/","b","o","o","k","s">>

\* a banner and an output entry a page may pass as initialHistory
PageBanner == Item("banner", "page-banner", <<>>, <<>>, <<>>, NULL)
PageNote == Item("output", "page-note", <<>>, <<>>, <<>>, NULL)

MakeProps(fsLoaded, initialCwd, historyGiven, items) ==
    [fsLoaded |-> fsLoaded, fs |-> FileSystem, initialCwd |-> initialCwd,
     initialHistory |-> [given |-> historyGiven, items |-> items]]

\* the ways the page creates the shell
PropsChoices ==
    { MakeProps(TRUE, NULL, FALSE, <<>>),
      MakeProps(TRUE, P_books, FALSE, <<>>),
      MakeProps(TRUE, <<>>, TRUE, <<>>),
      MakeProps(TRUE, NULL, TRUE, <<PageBanner, PageNote, defaultBanner>>),
      MakeProps(FALSE, NULL, FALSE, <<>>) }

\* the component as the current render sees it
Component ==
    [state |-> [history |-> history, commandHistory |-> commandHistory,
                cwds |-> cwds, currentCwd |-> currentCwd],
     historyPointer |-> historyPointer, hasUsedOpen |-> hasUsedOpen,
     helpWizardStep |-> helpWizardStep, helpWizardSeen |-> helpWizardSeen,
     lastOpenedFilePath |-> lastOpenedFilePath, pushedUrls |-> pushedUrls,
     highlights |-> highlights, uncaught |-> uncaught]

\* the component after mounting: useReducer(shellReducer, props, getInitialState), ...
Mounted(p) ==
    [state |-> getInitialState(p), historyPointer |-> -1, hasUsedOpen |-> FALSE,
     helpWizardStep |-> "none", helpWizardSeen |-> FALSE, lastOpenedFilePath |-> NULL,
     pushedUrls |-> <<>>, highlights |-> <<>>, uncaught |-> FALSE]

\* no helper function is called on its own in a session of the component
NoCall == [fn |-> "none", args |-> <<>>, done |-> FALSE, result |-> <<>>]

\* the component has just mounted under its props
JustMounted ==
    /\ history = Mounted(props).state.history
    /\ commandHistory = Mounted(props).state.commandHistory
    /\ cwds = Mounted(props).state.cwds
    /\ currentCwd = Mounted(props).state.currentCwd
    /\ input = <<>>
    /\ historyPointer = Mounted(props).historyPointer
    /\ hasUsedOpen = Mounted(props).hasUsedOpen
    /\ helpWizardStep = Mounted(props).helpWizardStep
    /\ helpWizardSeen = Mounted(props).helpWizardSeen
    /\ lastOpenedFilePath = Mounted(props).lastOpenedFilePath
    /\ pushedUrls = Mounted(props).pushedUrls
    /\ highlights = Mounted(props).highlights
    /\ uncaught = Mounted(props).uncaught

Init ==
    /\ props \in PropsChoices
    /\ JustMounted
    /\ call = NoCall

\* the prompt's onChange: setHistoryPointer(null); setInput(val)
Typed(val) ==
    /\ input' = val
    /\ historyPointer' = -1
    /\ UNCHANGED <<props, history, commandHistory, cwds, currentCwd, hasUsedOpen,
                   helpWizardStep, helpWizardSeen, lastOpenedFilePath, pushedUrls,
                   highlights, uncaught>>

OnChange(val) == Typed(val) /\ UNCHANGED call

\* Enter: handleSubmit.  A blank input returns at once; an exception in execute
\* leaves the input in the prompt (setInput('') is not reached).
Submitted ==
    /\ Len(trim(input)) # 0
    /\ \E after \in {execute(Component, props, input)} :
          /\ history' = after.state.history
          /\ commandHistory' = after.state.commandHistory
          /\ cwds' = after.state.cwds
          /\ currentCwd' = after.state.currentCwd
          /\ historyPointer' = after.historyPointer
          /\ hasUsedOpen' = after.hasUsedOpen
          /\ helpWizardStep' = after.helpWizardStep
          /\ helpWizardSeen' = after.helpWizardSeen
          /\ lastOpenedFilePath' = after.lastOpenedFilePath
          /\ pushedUrls' = after.pushedUrls
          /\ highlights' = after.highlights
          /\ uncaught' = after.uncaught
          /\ input' = IF after.uncaught THEN input ELSE <<>>
    /\ UNCHANGED props

HandleSubmit == Submitted /\ UNCHANGED call

\* tryChips.length > 0 once the effect on [hasUsedOpen, helpWizardStep, props.fs,
\* commandHistory.length, currentCwd] has run: the chips are emptied without a
\* tree, during the detour and after open, and buildTryChips returns at least
\* one chip otherwise (the first draw from basePool is always new)
TryChipsNonEmpty == props.fsLoaded /\ helpWizardStep = "none" /\ ~hasUsedOpen

\* the render shows the "Try" chips under the prompt
ChipsShown ==
    helpWizardStep = "none" /\ ~hasUsedOpen /\ Len(trim(input)) = 0 /\ TryChipsNonEmpty

\* the session is followed for its first n submitted lines
Within(n) == Len(commandHistory) < n

\* any line of the vocabulary, the error cases and the detour's answers
Next ==
    \/ \E val \in Lines : Within(MaxCmds) /\ OnChange(val)
    \/ Within(MaxCmds) /\ HandleSubmit

Spec == Init /\ [][Next]_vars

\* longer sessions of navigation commands
NextNav ==
    \/ \E val \in NavLines : Within(MaxNavCmds) /\ OnChange(val)
    \/ Within(MaxNavCmds) /\ HandleSubmit

SpecNav == Init /\ [][NextNav]_vars

\* longer sessions around the help detour
NextWizard ==
    \/ \E val \in WizardLines : Within(MaxWizardCmds) /\ OnChange(val)
    \/ Within(MaxWizardCmds) /\ HandleSubmit

SpecWizard == Init /\ [][NextWizard]_vars

\* sessions of reading commands
NextRead ==
    \/ \E val \in ReadLines : Within(MaxReadCmds) /\ OnChange(val)
    \/ Within(MaxReadCmds) /\ HandleSubmit

SpecRead == Init /\ [][NextRead]_vars

\* the argument forms of `tree`: the words typed after the command, with the depth
\* bound and the path they are meant to set (usage = TRUE where the form is
\* meant to be rejected, path = NULL where none is given)
MaxTreeBound == 2
MaxTreeCmds == 2

TreeForm(words, bound, path, usage) ==
    [words |-> words, bound |-> bound, path |-> path, usage |-> usage]

W_L == <<"-","L">>

TreeForms ==
    { TreeForm(<<>>, 4, NULL, FALSE), TreeForm(<<N_books>>, 4, N_books, FALSE),
      TreeForm(<<W_L>>, 0, NULL, TRUE), TreeForm(<<W_L, N_books>>, 0, NULL, TRUE),
      TreeForm(<<W_L, <<"\"", " ", "\"">> >>, 0, NULL, TRUE),
      TreeForm(<<W_L, <<"-","1">> >>, 0, NULL, FALSE),
      TreeForm(<<W_L, <<"1",".","5">> >>, 1, NULL, FALSE) }
    \cup UNION { { TreeForm(<<W_L, NumberToString(n)>>, n, NULL, FALSE),
                   TreeForm(<<W_L, NumberToString(n), N_books>>, n, N_books, FALSE),
                   TreeForm(<<NumberToString(n)>>, n, NULL, FALSE),
                   TreeForm(<<NumberToString(n), N_books>>, n, N_books, FALSE),
                   TreeForm(<<N_books, NumberToString(n)>>, n, N_books, FALSE) } :
                     n \in 0..MaxTreeBound }

\* the line that types the form
TreeLineOf(form) == join(<<TREE>> \o form.words, <<" ">>)

TreeLines == { TreeLineOf(form) : form \in TreeForms }

\* sessions of tree commands
NextTreeCmd ==
    \/ \E val \in TreeLines : Within(MaxTreeCmds) /\ OnChange(val)
    \/ Within(MaxTreeCmds) /\ HandleSubmit

SpecTreeCmd == Init /\ [][NextTreeCmd]_vars

\* sessions of listing commands, between moves through the tree
MaxListCmds == 3

L_ls == <<"l","s">>
L_ls_books == <<"l","s"," ","b","o","o","k","s">>
L_ls_missing == <<"L","S"," ","/","n","o","p","e"," ","-","a">>
L_dir_dune == <<"d","i","r"," ","d","u","n","e">>

ListLines == { L_ls, L_ls_books, L_ls_missing, L_dir_dune, L_cd_books, L_cd_sicp,
               L_open_dune, L_help }

NextList ==
    \/ \E val \in ListLines : Within(MaxListCmds) /\ OnChange(val)
    \/ Within(MaxListCmds) /\ HandleSubmit

SpecList == Init /\ [][NextList]_vars

\* sessions of commands that fail: a missing argument, an unknown command, a
\* path that is not found, a file where a directory is needed and a directory
\* where a file is needed, from the root and from /books
MaxFixCmds == 2

L_cdd_nope == <<"c","d","d"," ","n","o","p","e">>
L_cat_abot == <<"c","a","t"," ","a","b","o","t">>
L_open_boks == <<"o","p","e","n"," ","b","o","k","s">>
L_tree_boks == <<"t","r","e","e"," ","-","L"," ","2"," ","b","o","k","s">>
L_tree_L == <<"t","r","e","e"," ","-","L">>
L_cd_sic == <<"c","d"," ","s","i","c">>

FixLines ==
    { L_cat, L_open, L_search, L_tree_L, L_lls, L_cdd_nope, L_none, L_cd_missing,
      L_cd_sic, L_cat_abot, L_cat_missing, L_open_boks, L_open_missing, L_tree_boks,
      L_cd_file, L_cat_dir, L_cd_books }

NextFix ==
    \/ \E val \in FixLines : Within(MaxFixCmds) /\ OnChange(val)
    \/ Within(MaxFixCmds) /\ HandleSubmit

SpecFix == Init /\ [][NextFix]_vars

\* sessions of moves through the tree by targets that are not plain names: a
\* name followed by "..", doubled and trailing slashes, "~", an absolute path,
\* a file, and a name that is in no directory
MaxWalkCmds == 3

L_cd_nope_up == <<"c","d"," ","n","o","p","e","/",".",".">>
L_cd_about_up == <<"c","d"," ","a","b","o","u","t","/",".",".">>
L_cd_sicp_up == <<"c","d"," ","s","i","c","p","/",".",".">>
L_cd_slashes == <<"c","d"," ",".","/","b","o","o","k","s","/","/","s","i","c","p","/">>
L_cd_tilde == <<"c","d"," ","~">>
L_cd_abs_sicp == <<"c","d"," ","/","b","o","o","k","s","/","s","i","c","p">>
L_open_books_up == <<"o","p","e","n"," ","/","d","u","n","e","/",".",".","/","b","o","o","k","s","/">>

WalkLines ==
    { L_cd_books, L_cd_nope_up, L_cd_about_up, L_cd_sicp_up, L_cd_slashes, L_cd_tilde,
      L_cd_abs_sicp, L_open_books_up, L_cd_file, L_open_constructor, L_back }

NextWalk ==
    \/ \E val \in WalkLines : Within(MaxWalkCmds) /\ OnChange(val)
    \/ Within(MaxWalkCmds) /\ HandleSubmit

SpecWalk == Init /\ [][NextWalk]_vars

(***************************************************************************)
(* Sessions at the prompt's keys: typing, Tab, the arrows and Enter.  Each *)
(* handler leaves its name in `call`, so a step tells which key was        *)
(* pressed.                                                                *)
(***************************************************************************)
MaxCompleteCmds == 1
MaxHistoryCmds == 3
\* Tab is followed while the prompt holds fewer characters than this
MaxInputLen == 16

K_h == <<"h">>
K_HE == <<"H","E">>
K_quoted_c == <<"\"","c">>
K_dir == <<"d","i","r">>
K_hlp == <<"h","l","p">>
K_y == <<"y">>
K_cd_b == <<"c","d"," ","b">>
K_cat_a == <<"c","a","t"," ","a">>
K_open == <<"o","p","e","n"," ">>
K_goto_B == <<"g","o","t","o"," ","B">>
K_ls_b == <<"l","s"," ","b">>
K_cd_missing == <<"c","d"," ","n","o","p","e","/","x">>
K_cat_file == <<"c","a","t"," ","a","b","o","u","t","/">>
K_cd_quoted == <<"c","d"," ","\"","b","o">>
K_tree_d == <<" ","t","r","e","e"," ","d">>
K_cd_up_b == <<"c","d"," ",".",".","/","b">>
K_cd_constructor == <<"c","d"," ","c","o","n","s","t","r","u","c","t","o","r","/">>
K_read_a == <<"r","e","a","d"," ","a">>

\* what is typed at the prompt: command words in part and in full, quoted and in
\* capitals, an alias, and path arguments for every completion mode
KeyLines ==
    { L_help, K_h, K_HE, K_quoted_c, K_dir, K_hlp,
      K_y, K_cd_b, K_cat_a, K_open, K_goto_B,
      K_ls_b, K_cd_missing, K_cat_file, K_cd_quoted, K_tree_d,
      K_cd_up_b, K_cd_constructor, K_read_a }

\* the handler that ran last
Key(fn, direction) == [fn |-> fn, args |-> <<direction>>, done |-> TRUE, result |-> <<>>]

\* a change of the prompt's text
KeyOnChange(val) == Typed(val) /\ call' = Key("onChange", "none")

\* Enter
KeySubmit == Submitted /\ call' = Key("handleSubmit", "none")

\* Tab: handleTabComplete sets the input and nothing else
HandleTabComplete ==
    /\ input' = handleTabComplete(autocomplete(helpWizardStep, input, props, currentCwd),
                                  input)
    /\ call' = Key("handleTabComplete", "none")
    /\ UNCHANGED <<props, history, commandHistory, cwds, currentCwd, historyPointer,
                   hasUsedOpen, helpWizardStep, helpWizardSeen, lastOpenedFilePath,
                   pushedUrls, highlights, uncaught>>

\* an arrow: handleHistory sets the pointer and the input and nothing else
HandleHistory(direction) ==
    /\ \E after \in {handleHistory(commandHistory, historyPointer, input, direction)} :
          /\ historyPointer' = after.historyPointer
          /\ input' = after.input
    /\ call' = Key("handleHistory", direction)
    /\ UNCHANGED <<props, history, commandHistory, cwds, currentCwd, hasUsedOpen,
                   helpWizardStep, helpWizardSeen, lastOpenedFilePath, pushedUrls,
                   highlights, uncaught>>

\* typing and accepting completions, around at most one submitted line
NextComplete ==
    \/ \E val \in KeyLines : KeyOnChange(val)
    \/ Within(MaxCompleteCmds) /\ KeySubmit
    \/ Len(input) < MaxInputLen /\ HandleTabComplete

SpecComplete == Init /\ [][NextComplete]_vars

\* the lines whose submissions the arrows walk: commands that succeed and that
\* fail, an answer of the detour, a blank line
HistoryLines == { L_help, K_y, L_cd_books, L_cd_missing, L_constructor, L_blank }

NextHistory ==
    \/ \E val \in HistoryLines : Within(MaxHistoryCmds) /\ KeyOnChange(val)
    \/ Within(MaxHistoryCmds) /\ KeySubmit
    \/ \E direction \in {"up", "down"} : HandleHistory(direction)

SpecHistory == Init /\ [][NextHistory]_vars

(***************************************************************************)
(* The helper functions called on their own: the arguments are drawn when  *)
(* the behaviour starts, a step applies the function.  The component stays *)
(* as it mounted.                                                          *)
(***************************************************************************)
\* the component is mounted on the tree and is left alone
ComponentIdle == props = MakeProps(TRUE, NULL, FALSE, <<>>) /\ JustMounted

ComponentUntouched ==
    UNCHANGED <<props, history, commandHistory, cwds, currentCwd, input, historyPointer,
                hasUsedOpen, helpWizardStep, helpWizardSeen, lastOpenedFilePath,
                pushedUrls, highlights, uncaught>>

\* a call of fn on args that has not run yet
Pending(fn, args) == [fn |-> fn, args |-> args, done |-> FALSE, result |-> <<>>]

\* the sequences of 1 to n elements of S
SeqsUpTo(S, n) == UNION { [1..k -> S] : k \in 1..n }

\* a tree that is a root without children
LoneRoot == (<<>> :> DirNode(<<>>, NULL, <<>>, <<>>))

TreeChoices == { FileSystem, LoneRoot }

\* the longest target in segments, and the longest made of "." and ".." only
MaxSegments == 3
MaxDotSegments == 5

DotSegments == { <<".", ".">>, <<".">> }

NameSegments == { N_books, N_sicp, N_about, <<"c","o","n","s","t","r","u","c","t","o","r">> }

\* the targets: relative and absolute, with and without a trailing slash for the
\* dot-only ones, and the three special ones
TargetChoices ==
    UNION { { join(segs, <<"/">>), <<"/">> \o join(segs, <<"/">>) } :
                segs \in SeqsUpTo(DotSegments \cup NameSegments, MaxSegments) }
    \cup UNION { { join(segs, <<"/">>), join(segs, <<"/">>) \o <<"/">> } :
                     segs \in SeqsUpTo(DotSegments, MaxDotSegments) }
    \cup { <<"/">>, <<"~">>, <<>> }

\* the current paths: working directories of the tree, and a bare name
CurrentChoices ==
    { <<"/">>, P_books, P_books \o <<"/">> \o N_sicp, <<"/">> \o N_dune, <<"a">> }

InitResolve ==
    /\ ComponentIdle
    /\ call \in { Pending("resolvePath", [root |-> r, current |-> c, target |-> t]) :
                      r \in TreeChoices, c \in CurrentChoices, t \in TargetChoices }

\* resolvePath(root, current, target)
ResolveCall ==
    /\ call.fn = "resolvePath" /\ ~call.done
    /\ call' = [call EXCEPT !.done = TRUE,
                            !.result = <<resolvePath(call.args.root, call.args.current,
                                                     call.args.target)>>]
    /\ ComponentUntouched

\* getNodeAtPath(root, path) on the path resolvePath returned
LookupCall ==
    /\ call.fn = "resolvePath" /\ call.done
    /\ Len(call.result) = 1 /\ call.result[1] # NULL
    /\ call' = [call EXCEPT !.result = Append(@, getNodeAtPath(call.args.root,
                                                               call.result[1]))]
    /\ ComponentUntouched

NextResolve == ResolveCall \/ LookupCall

SpecResolve == InitResolve /\ [][NextResolve]_vars

\* the queries handed to the fuzzy engine: typos, prefixes, letters in upper case,
\* surrounding blanks, the empty and the blank query, and lengths on each side of
\* the steps of getMaxEditDistance (4 | 5, 8 | 9)
Q_hlep == <<"h","l","e","p">>
Q_serch == <<"s","e","r","c","h">>
Q_summarie == <<"s","u","m","m","a","r","i","e">>
Q_summaries == <<"s","u","m","m","a","r","i","e","s">>

QueryChoices ==
    { Q_hlep, <<"H","l","E","p">>, <<" ","h","l","e","p"," ">>, <<>>, <<" "," ">>,
      <<"l">>, <<"e">>, <<"h","e">>, <<" ","s","e">>, <<"o","p","n","e">>,
      Q_serch, <<"s","u","m","m","e">>, Q_summarie, Q_summaries }

\* the names candidate lists are made of besides the shell's vocabulary
CandidatePool ==
    { HELP, <<"h","e","a","p">>, Q_hlep, <<"H","e","l","p">>, LS, HOME, SEARCH,
      SUMMARY, <<"s","u","m","m","a">>, <<"s","u","m","m">>, <<"s","u","m">> }

\* the longest candidate list drawn from the pool
MaxCandidates == 2

CandidateLists ==
    { AUTOCOMPLETE_COMMANDS, <<>> } \cup SeqsUpTo(CandidatePool, MaxCandidates)

\* the limits; the shell passes 4 and 6
LimitChoices == { 0, 1, 2, 4, 6, 12 }

InitFuzzy ==
    /\ ComponentIdle
    /\ call \in { Pending("rankCandidates",
                           [query |-> q, candidates |-> cs, limit |-> n]) :
                      q \in QueryChoices, cs \in CandidateLists, n \in LimitChoices }
                \cup { Pending("levenshteinDistance", [a |-> a, b |-> b]) :
                          a \in QueryChoices \cup CandidatePool,
                          b \in QueryChoices \cup CandidatePool }

\* rankCandidates(query, candidates, limit)
RankCall ==
    /\ call.fn = "rankCandidates" /\ ~call.done
    /\ call' = [call EXCEPT !.done = TRUE,
                            !.result = rankCandidates(call.args.query, call.args.candidates,
                                                      call.args.limit)]
    /\ ComponentUntouched

\* levenshteinDistance(a, b)
DistanceCall ==
    /\ call.fn = "levenshteinDistance" /\ ~call.done
    /\ call' = [call EXCEPT !.done = TRUE,
                            !.result = levenshteinDistance(call.args.a, call.args.b)]
    /\ ComponentUntouched

NextFuzzy == RankCall \/ DistanceCall

SpecFuzzy == InitFuzzy /\ [][NextFuzzy]_vars

\* the distance on its own: every pair of words of up to MaxWordLen letters
MaxWordLen == 3

WordLetters == { "a", "b", "c" }

Words == { <<>> } \cup SeqsUpTo(WordLetters, MaxWordLen)

InitDistance ==
    /\ ComponentIdle
    /\ call \in { Pending("levenshteinDistance", [a |-> a, b |-> b]) : a \in Words, b \in Words }

NextDistance == DistanceCall

SpecDistance == InitDistance /\ [][NextDistance]_vars

\* a tree of nested directories a/b/c/d with a file f beside each of them
DeepTree ==
    (<<>> :> DirNode(<<>>, NULL, <<>>, << <<"f">>, <<"a">> >>))
    @@ (<< <<"f">> >> :> FileNode(<<"f">>, <<"f">>, <<"F">>, <<>>, <<>>))
    @@ (<< <<"a">> >> :> DirNode(<<"a">>, <<"A">>, <<>>, << <<"f">>, <<"b">> >>))
    @@ (<< <<"a">>, <<"f">> >> :> FileNode(<<"f">>, <<"a","/","f">>, <<"f">>, <<>>, <<>>))
    @@ (<< <<"a">>, <<"b">> >> :> DirNode(<<"b">>, <<"b">>, <<>>, << <<"c">>, <<"f">> >>))
    @@ (<< <<"a">>, <<"b">>, <<"f">> >> :>
            FileNode(<<"f">>, <<"a","/","b","/","f">>, NULL, <<>>, <<>>))
    @@ (<< <<"a">>, <<"b">>, <<"c">> >> :> DirNode(<<"c">>, NULL, <<>>, << <<"d">>, <<"f">> >>))
    @@ (<< <<"a">>, <<"b">>, <<"c">>, <<"f">> >> :>
            FileNode(<<"f">>, <<"a","/","b","/","c","/","f">>, NULL, <<>>, <<>>))
    @@ (<< <<"a">>, <<"b">>, <<"c">>, <<"d">> >> :> DirNode(<<"d">>, NULL, <<>>, <<>>))

\* the largest depth bound handed to the renderer
MaxTreeDepth == 5

\* the name a node is displayed under: "/" for the root, else its own name
DisplayNameOf(node) == IF node = <<>> THEN <<"/">> ELSE node[Len(node)]

InitTree ==
    /\ ComponentIdle
    /\ call \in UNION { { Pending("buildTreeText",
                                   [root |-> r, node |-> n,
                                    displayName |-> DisplayNameOf(n), maxDepth |-> d]) :
                              n \in DOMAIN r, d \in 0..MaxTreeDepth } :
                            r \in { FileSystem, LoneRoot, DeepTree } }

\* buildTreeText(node, displayName, maxDepth)
TreeCall ==
    /\ call.fn = "buildTreeText" /\ ~call.done
    /\ call' = [call EXCEPT !.done = TRUE,
                            !.result = buildTreeText(call.args.root, call.args.node,
                                                     call.args.displayName,
                                                     call.args.maxDepth)]
    /\ ComponentUntouched

NextTree == TreeCall

SpecTree == InitTree /\ [][NextTree]_vars

\* the lines handed to the tokenizer: every string of up to MaxLineLen characters
\* over letters in both cases, the blanks, the two quotes and the backslash, and
\* lines that name commands and aliases in either case, with arguments
MaxLineLen == 4

LineChars == { "a", "B", " ", "\t", "\"", "'", "\\" }

A_what == <<"?">>
A_dir == <<"d","i","r">>
A_goto == <<"g","o","t","o">>
A_read == <<"r","e","a","d">>
A_tldr == <<"t","l","d","r">>

CommandLines ==
    { A_what, A_what \o <<" ","c","d">>, A_dir, <<"D","I","R">>,
      <<"D","i","r"," ","B","o","o","k","s">>, A_goto \o <<" ","B","o","o","k","s">>,
      <<"R","E","A","D"," ","a"," ","B">>, A_tldr, A_read, HELP, <<"H","e","l","p">>,
      <<"l","s"," ","-","A">>, <<"c","d"," ","d","i","r">>, SUMMARY, L_constructor,
      <<"C","O","N","S","T","R","U","C","T","O","R">> }

ParseLines == { <<>> } \cup SeqsUpTo(LineChars, MaxLineLen) \cup CommandLines

InitParse ==
    /\ ComponentIdle
    /\ call \in { Pending("parseCommand", [input |-> line]) : line \in ParseLines }

\* parseCommand(input)
ParseCall ==
    /\ call.fn = "parseCommand" /\ ~call.done
    /\ call' = [call EXCEPT !.done = TRUE, !.result = parseCommand(call.args.input)]
    /\ ComponentUntouched

NextParse == ParseCall

SpecParse == InitParse /\ [][NextParse]_vars

(***************************************************************************)
(* Properties.                                                             *)
(***************************************************************************)
\* this step is a submission that ran execute on the line in the prompt
Submits == Len(commandHistory') = Len(commandHistory) + 1

\* the line is dispatched to the switch: no detour is awaiting an answer and the
\* tree is loaded
Dispatching == helpWizardStep = "none" /\ props.fsLoaded

\* the autocomplete value of the current render
Autocomplete == autocomplete(helpWizardStep, input, props, currentCwd)

\* the bottom entry a session has when it is created from its props
FloorOf(p) == IF p.initialCwd = NULL \/ p.initialCwd = <<>> THEN <<"/">> ELSE p.initialCwd

IsBannerEntry(e) == e.type = "banner"

\* the banner-tagged entries of a log, in order
BannerEntries(log) == SelectSeq(log, IsBannerEntry)

\* the path of the child D of the directory C
ChildPath(C, D) == IF C = <<"/">> THEN <<"/">> \o D ELSE C \o <<"/">> \o D

\* the entries a submitted line added to the log, the echo first
Added == SubSeq(history', Len(history) + 1, Len(history'))

\* C1: in every reachable state the visited-path stack is non-empty, the working
\* directory is its top entry, and its bottom entry is the one the session was
\* created with.
C1_StackKeepsFloor ==
    /\ Len(cwds) >= 1
    /\ currentCwd = cwds[Len(cwds)]
    /\ cwds[1] = Mounted(props).state.cwds[1]

\* C1: the stack has grown and shrunk back, and `back` was tried at the floor
C1_Witness ==
    /\ commandHistory = <<L_cd_books, L_open_dune, L_back, L_back>>
    /\ props.fsLoaded
    /\ Len(cwds) = 1
    /\ history[Len(history)].tag = "Already at root of session."

\* C2: `back` submitted with exactly one entry on the stack leaves the stack and the
\* working directory as they are, appends the echo and exactly one more entry (the
\* notice "Already at root of session." when the line is dispatched), and ends
\* without an exception.
C2_BackAtFloorIsNoOp ==
    [][(Submits /\ input = L_back /\ Len(cwds) = 1) =>
          /\ cwds' = cwds
          /\ currentCwd' = currentCwd
          /\ SubSeq(history', 1, Len(history)) = history
          /\ Len(Added) = 2
          /\ Added[1].type = "command" /\ Added[1].text = L_back
          /\ Added[2].type \in {"error", "output"}
          /\ (Dispatching => Added[2].tag = "Already at root of session.")
          /\ ~uncaught']_vars

\* C2: `back` was submitted at the floor after the stack had been above it
C2_Witness ==
    /\ commandHistory = <<L_home, L_back, L_back>>
    /\ props.initialCwd = P_books
    /\ cwds = <<P_books>>
    /\ history[Len(history)].type = "error"
    /\ history[Len(history)].tag = "Already at root of session."

\* the navigation lines: each pushes one entry when it succeeds
NavMoves == { L_cd_books, L_cd_sicp, L_cd_up, L_cd_dot, L_home, L_open_dune }

RECURSIVE Replay(_, _, _)
\* the component after the first k lines of cmds, from the mounted component
Replay(p, cmds, k) ==
    IF k = 0 THEN Mounted(p) ELSE execute(Replay(p, cmds, k - 1), p, cmds[k])

\* the last 2n submitted lines are n navigation lines that each pushed one entry,
\* followed by n `back`
NavsThenBacks(n) ==
    LET m == Len(commandHistory)
    IN /\ m >= 2 * n
       /\ \A j \in (m - n + 1)..m : commandHistory[j] = L_back
       /\ \A j \in (m - 2 * n + 1)..(m - n) : commandHistory[j] \in NavMoves
       /\ \A j \in (m - 2 * n + 1)..(m - n) :
             Len(Replay(props, commandHistory, j).state.cwds)
                 = Len(Replay(props, commandHistory, j - 1).state.cwds) + 1

\* the stack and the working directory are those of the state 2n lines ago
RestoredFrom(n) ==
    LET before == Replay(props, commandHistory, Len(commandHistory) - 2 * n).state
    IN cwds = before.cwds /\ currentCwd = before.currentCwd

\* C3: the stack is LIFO.  After n successful navigation commands followed by n
\* `back` the stack and the working directory are those of the state before them;
\* every navigation command that succeeds pushes exactly one entry, and every `back`
\* above the floor removes exactly the top entry and makes the new top the working
\* directory.
C3_StackIsLifo ==
    /\ [](\A n \in 1..(MaxNavCmds \div 2) : NavsThenBacks(n) => RestoredFrom(n))
    /\ [][(Submits /\ input \in NavMoves /\ currentCwd' # currentCwd) =>
             cwds' = Append(cwds, currentCwd')]_vars
    /\ [][(Submits /\ input = L_back /\ Len(cwds) > 1 /\ Dispatching) =>
             /\ cwds' = SubSeq(cwds, 1, Len(cwds) - 1)
             /\ currentCwd' = cwds[Len(cwds) - 1]]_vars

\* C3: two navigation commands and two `back` from a stack that was above its floor
C3_Witness ==
    /\ commandHistory = <<L_cd_books, L_cd_sicp, L_back, L_back>>
    /\ props.initialCwd = NULL /\ props.fsLoaded
    /\ NavsThenBacks(2)
    /\ cwds = << <<"/">> >>

\* C4 as stated: the bottom entry of the stack is the root path "/", however the
\* session was created.
C4_FloorIsRoot == cwds[1] = <<"/">>

\* C4, amended: the bottom entry of the stack is the initial working directory the
\* caller supplied, and the root path "/" when the caller supplied none (or an
\* empty one).
C4_FloorIsInitialCwd == cwds[1] = FloorOf(props)

\* C4: a session created in /books has moved and come back to its floor
C4_Witness ==
    /\ props.initialCwd = P_books
    /\ commandHistory = <<L_home, L_back>>
    /\ cwds = <<P_books>>

\* the log holds, from entry i on: the echo of `cd D` submitted in C, the echo of
\* `cd ..` submitted in the child D of C, the echo of `pwd`, the path pwd printed
CdUpPwdAt(i, C, cdD, D) ==
    /\ i + 3 <= Len(history)
    /\ history[i].type = "command" /\ history[i].text = cdD /\ history[i].path = C
    /\ history[i + 1].type = "command" /\ history[i + 1].text = L_cd_up
    /\ history[i + 1].path = ChildPath(C, D)
    /\ history[i + 2].type = "command" /\ history[i + 2].text = L_pwd
    /\ history[i + 3].type = "output" /\ history[i + 3].tag = "pwd"

\* the directories that are entered, with the line that enters each
ChildMoves == { <<L_cd_books, N_books>>, <<L_cd_sicp, N_sicp>> }

\* C5: `cd D` into a direct child D of the working directory C, then `cd ..`, then
\* `pwd` prints C.
C5_CdUpReturns ==
    \A i \in 1..Len(history) : \A mv \in ChildMoves :
        (history[i].type = "command" /\ CdUpPwdAt(i, history[i].path, mv[1], mv[2]))
            => history[i + 3].text = history[i].path

\* C5: the three lines were run from /books, a directory that is not the root
C5_Witness ==
    /\ Len(history) >= 4
    /\ CdUpPwdAt(Len(history) - 3, P_books, L_cd_sicp, N_sicp)
    /\ history[Len(history)].text = P_books

\* C6: a dispatched `clear` leaves in the log exactly the banner-tagged entries it
\* held, in their order (so neither the echo of `clear` nor any other entry), or the
\* single default banner when it held none; the working directory and the stack
\* are unchanged and no line is lost from the command history, which gains `clear`.
C6_ClearKeepsBanners ==
    [][(Submits /\ input = L_clear /\ Dispatching) =>
          /\ history' = IF Len(BannerEntries(history)) > 0
                        THEN BannerEntries(history) ELSE <<defaultBanner>>
          /\ cwds' = cwds
          /\ currentCwd' = currentCwd
          /\ commandHistory' = Append(commandHistory, L_clear)]_vars

\* C6: a log of two banners with other entries between them was cleared
C6_Witness ==
    /\ props.initialHistory.items = <<PageBanner, PageNote, defaultBanner>>
    /\ commandHistory = <<L_pwd, L_clear>>
    /\ history = <<PageBanner, defaultBanner>>

\* the lines whose outcome is an error wherever they are dispatched: unknown
\* commands, a path that does not exist, a file or nothing where a directory is
\* expected, a directory or nothing where a file is expected, a missing argument
ErrorLines ==
    { L_lls, L_yes, L_no, L_constructor, L_cd_missing, L_cd_file, L_cat_dir, L_cat }

\* the submitted line is one of the error cases: a parse error, any line while the
\* tree is not loaded, an error line that is dispatched
ErrorCase ==
    \/ input = L_unclosed
    \/ helpWizardStep = "none" /\ ~props.fsLoaded
    \/ Dispatching /\ input \in ErrorLines

\* C7 as stated: every error outcome appends an error entry after the echo, leaves
\* the working directory and the stack unchanged, and the session goes on.
C7_ErrorsAppendAnEntry ==
    [][(Submits /\ ErrorCase) =>
          /\ Len(Added) = 2
          /\ Added[2].type = "error"
          /\ cwds' = cwds
          /\ currentCwd' = currentCwd
          /\ ~uncaught']_vars

\* C8 as stated: no submitted line ends execute in an uncaught exception.
C8_NoUncaughtException == ~uncaught

\* the log entry that asks the first question of the detour
IsFirstQuestion(e) ==
    e.tag = "help-wizard: May I trouble you with a question? Yes/No"

\* C9 as stated: the first question of the detour is asked at most once in a
\* session, whether the detour was completed or declined.
C9_DetourAtMostOnce == Len(SelectSeq(history, IsFirstQuestion)) <= 1

\* C9, amended: the detour is entered at most once after it has been accepted.  A
\* yes to the first question is recorded for the rest of the session; from then on
\* no line enters the first question again and every dispatched `help` prints the
\* static category grid.  A no to the first question returns to normal dispatch
\* and records nothing, and `help` dispatched while nothing is recorded asks the
\* first question.
C9_DetourOnceAccepted ==
    /\ [][(Submits /\ helpWizardStep = "start" /\ input = L_yes) =>
             helpWizardSeen' /\ helpWizardStep' = "experience"]_vars
    /\ [][helpWizardSeen => helpWizardSeen']_vars
    /\ [][helpWizardSeen => ~(helpWizardStep = "none" /\ helpWizardStep' = "start")]_vars
    /\ [][(Submits /\ helpWizardSeen /\ Dispatching /\ input = L_help) =>
             /\ helpWizardStep' = "none"
             /\ Added[2].tag = "help: Navigation, Discovery, Reading, System"]_vars
    /\ [][(Submits /\ helpWizardStep = "start" /\ input = L_no) =>
             helpWizardSeen' = helpWizardSeen /\ helpWizardStep' = "none"]_vars
    /\ [][(Submits /\ ~helpWizardSeen /\ Dispatching /\ input = L_help) =>
             helpWizardStep' = "start" /\ IsFirstQuestion(Added[2])]_vars

\* C9: the detour was accepted and completed, and the next `help` printed the grid
C9_Witness ==
    /\ commandHistory = <<L_help, L_yes, L_no, L_help>>
    /\ props.fsLoaded
    /\ helpWizardSeen /\ helpWizardStep = "none"
    /\ history[Len(history)].tag = "help: Navigation, Discovery, Reading, System"

\* C10: while the detour awaits an answer, autocomplete offers no suggestion, and a
\* submitted line, whatever it is, leaves the working directory and the stack
\* unchanged and only appends to the log; the detour ends only by a no to the first
\* question or a yes or no to the second.
C10_DetourGatesDispatch ==
    /\ [](helpWizardStep # "none" => Autocomplete.suggestions = <<>>)
    /\ [][(Submits /\ helpWizardStep # "none") =>
             /\ cwds' = cwds
             /\ currentCwd' = currentCwd
             /\ Len(history') > Len(history)
             /\ SubSeq(history', 1, Len(history)) = history
             /\ (helpWizardStep' = "none" =>
                    \/ helpWizardStep = "start" /\ input = L_no
                    \/ helpWizardStep = "experience" /\ input \in {L_yes, L_no})]_vars

\* C10: `cd books` was submitted during the detour and `clear` is typed next, a
\* line autocomplete completes outside the detour
C10_Witness ==
    /\ commandHistory = <<L_help, L_cd_books>>
    /\ props.fsLoaded
    /\ helpWizardStep = "start"
    /\ input = L_clear
    /\ currentCwd = FloorOf(props)
    /\ autocomplete("none", input, props, currentCwd).suggestions # <<>>

\* the answers the detour accepts, after trim() and toLowerCase()
WizardAnswers == { <<"y">>, <<"y","e","s">>, <<"n">>, <<"n","o">> }

\* C11 as stated: while the detour awaits an answer, every submitted non-blank line
\* that is not y, yes, n or no (trimmed, in any letter case) leaves the detour in
\* the same step and appends the reprompt "Please answer: Yes/No" after the echo.
C11_OtherLinesReprompt ==
    [][(Submits /\ helpWizardStep # "none" /\ toLowerCase(trim(input)) \notin WizardAnswers) =>
          /\ helpWizardStep' = helpWizardStep
          /\ Len(Added) = 2
          /\ Added[2].type = "output"
          /\ Added[2].tag = "help-wizard: Please answer: Yes/No"]_vars

\* lines whose command word is not in the vocabulary and not an alias
UnknownLines == { L_lls, L_lls_tab, L_none, L_yes, L_no }

RECURSIVE DropWord(_)
\* the line from the first whitespace character on
DropWord(s) ==
    IF Len(s) = 0 \/ IsSpace(s[1]) THEN s ELSE DropWord(SubSeq(s, 2, Len(s)))

\* the argument tail of a line as it was typed: what follows the command word
TypedTail(line) == DropWord(trimStart(line))

\* the command word of a line as it was typed, lowercased
TypedName(line) ==
    toLowerCase(SubSeq(trimStart(line), 1, Len(trimStart(line)) - Len(TypedTail(line))))

\* the vocabulary as the fuzzy engine ranks it against each typed name, worked out
\* by hand: `lls` and `yes` are within distance 2 of ls only; `n` is contained in
\* open and at distance 2 of cd and ls; nothing is within distance 2 of `qqq`
RankedFor(name) ==
    IF name \in { <<"l","l","s">>, <<"y","e","s">> } THEN <<LS>>
    ELSE IF name = <<"n">> THEN <<OPEN, CD, LS>>
    ELSE <<>>

\* the fixes of an unknown command: the ranked vocabulary with the tail re-appended
FixesWithTail(ranked, tail) ==
    IF Len(ranked) = 0 THEN <<Fix(HELP)>>
    ELSE [i \in 1..Len(ranked) |-> Fix(ranked[i] \o tail)]

\* C12 as stated: an unrecognized command appends an error entry whose fixes are the
\* vocabulary commands the fuzzy engine ranks against the typed name (at most 4), each
\* followed by the argument tail as typed, however the arguments are separated from
\* the command word; `lls -a` has `ls -a` as its first fix; the only fix is `help`
\* when no vocabulary command is eligible.
C12_UnknownFixesKeepTail ==
    [][(Submits /\ Dispatching /\ input \in UnknownLines) =>
          /\ Len(Added) = 2
          /\ Added[2].type = "error"
          /\ Len(Added[2].fixes) <= 4
          /\ Added[2].text = TypedName(input)
          /\ Added[2].fixes = FixesWithTail(RankedFor(TypedName(input)), TypedTail(input))
          /\ (input = L_lls => Added[2].fixes[1].command = <<"l","s"," ","-","a">>)
          /\ (input = L_none => Added[2].fixes = <<Fix(HELP)>>)]_vars

\* the lines `cat <target>` and `open <target>` of the model
CatLines == { L_cat_dir, L_cat_up, L_cat_about, L_cat_intro, L_cat_missing }
OpenLines == { L_open_dune, L_open_about, L_open_missing, L_open_up, L_open_constructor }

\* the target of a line `cat <target>` or `open <target>`
TargetOf(line) ==
    IF line \in CatLines THEN SubSeq(line, 5, Len(line)) ELSE SubSeq(line, 6, Len(line))

\* the kind of node the target names from the working directory: "dir", "file",
\* or "none" when the path does not resolve
KindOf(target) ==
    IF resolvePath(props.fs, currentCwd, target) = NULL THEN "none"
    ELSE IF getNodeAtPath(props.fs, resolvePath(props.fs, currentCwd, target)) = NoNode
    THEN "none"
    ELSE CursorType(props.fs,
                    getNodeAtPath(props.fs, resolvePath(props.fs, currentCwd, target)))

\* the commands of the fixes of a log entry
FixCommands(e) == { e.fixes[i].command : i \in 1..Len(e.fixes) }

\* C13: `cat <target>` on a target that resolves to an existing directory appends
\* one error entry "Is a directory" whose fixes include `ls <target>` and
\* `open <target>`, prints no content, and leaves the working directory and the
\* stack unchanged.
C13_CatOfDirectory ==
    [][(Submits /\ Dispatching /\ input \in CatLines /\ KindOf(TargetOf(input)) = "dir") =>
          /\ Len(Added) = 2
          /\ Added[2].type = "error"
          /\ Added[2].tag = "cat: ${target}: Is a directory"
          /\ Added[2].text = TargetOf(input)
          /\ (LS \o <<" ">> \o TargetOf(input)) \in FixCommands(Added[2])
          /\ (OPEN \o <<" ">> \o TargetOf(input)) \in FixCommands(Added[2])
          /\ cwds' = cwds
          /\ currentCwd' = currentCwd]_vars

\* C13: `cat ..` was run in /books, where the target is the root directory
C13_Witness ==
    /\ commandHistory = <<L_cd_books, L_cat_up>>
    /\ currentCwd = P_books
    /\ history[Len(history)].tag = "cat: ${target}: Is a directory"
    /\ history[Len(history)].text = <<".", ".">>

\* the names from the root to the node a target names from the working directory:
\* the segments of the working directory (unless the target is absolute) and of
\* the target, with "." dropped and ".." removing the segment before it
NamesOf(target) ==
    IF target \in { <<"/">>, <<"~">> } THEN <<>>
    ELSE FoldSegments(IF Len(target) > 0 /\ target[1] = "/" THEN Segments(target)
                      ELSE Segments(currentCwd) \o Segments(target), <<>>)

\* the kind of the node of the tree the target names: "dir", "file", or "none"
\* when the tree holds no such node
TreeKindOf(target) ==
    IF NamesOf(target) \in DOMAIN props.fs THEN props.fs[NamesOf(target)].type ELSE "none"

\* the canonical path of the node the target names
CanonicalOf(target) == <<"/">> \o join(NamesOf(target), <<"/">>)

\* C14 as stated: `open <target>` on a directory pushes the directory's canonical
\* path, which becomes the working directory, and prints nothing; on a file it
\* appends the file's content as one output entry and leaves the working directory
\* and the stack unchanged; on a target that names no node it appends one error
\* entry and changes neither the working directory, the stack, the address nor
\* the last-opened file.
C14_OpenByKind ==
    [][(Submits /\ Dispatching /\ input \in OpenLines) =>
          /\ (TreeKindOf(TargetOf(input)) = "dir" =>
                 /\ cwds' = Append(cwds, CanonicalOf(TargetOf(input)))
                 /\ currentCwd' = CanonicalOf(TargetOf(input))
                 /\ Len(Added) = 1)
          /\ (TreeKindOf(TargetOf(input)) = "file" =>
                 /\ Len(Added) = 2
                 /\ Added[2].type = "output"
                 /\ Added[2].text = props.fs[NamesOf(TargetOf(input))].content
                 /\ cwds' = cwds
                 /\ currentCwd' = currentCwd)
          /\ (TreeKindOf(TargetOf(input)) = "none" =>
                 /\ Len(Added) = 2
                 /\ Added[2].type = "error"
                 /\ cwds' = cwds
                 /\ currentCwd' = currentCwd
                 /\ pushedUrls' = <<>>
                 /\ highlights' = <<>>
                 /\ lastOpenedFilePath' = lastOpenedFilePath)]_vars

\* the chips would be shown if no open had been dispatched
ChipsOtherwiseShown ==
    helpWizardStep = "none" /\ Len(trim(input)) = 0 /\ props.fsLoaded

\* C15: a dispatched `open` suppresses the hint chips for the rest of the session:
\* it sets hasUsedOpen, no later step unsets it, and the chips are shown in no
\* state where it is set.
C15_OpenSuppressesChips ==
    /\ [][(Submits /\ Dispatching /\ input \in (OpenLines \cup {L_open})) =>
             hasUsedOpen']_vars
    /\ [][hasUsedOpen => hasUsedOpen']_vars
    /\ [](hasUsedOpen => ~ChipsShown)

\* C15: after `open dune` the detour was entered and declined and the log cleared,
\* and the prompt is empty: the chips are still not shown
C15_Witness ==
    /\ commandHistory = <<L_open_dune, L_help, L_no, L_clear>>
    /\ hasUsedOpen
    /\ ChipsOtherwiseShown
    /\ ~ChipsShown

\* what is printed for a file: its content, or the placeholder when it is empty
PrintedFor(content) ==
    IF content = <<>> THEN <<"(","E","m","p","t","y"," ","f","i","l","e",")">> ELSE content

\* C16: `cat`, whatever its argument (a file, a directory, a missing path, none),
\* leaves the working directory and the stack unchanged and sends no address update
\* and no sidebar notification; on an existing file it appends one output entry
\* holding the file's content.
C16_CatStaysInPlace ==
    [][(Submits /\ Dispatching /\ input \in (CatLines \cup {L_cat})) =>
          /\ cwds' = cwds
          /\ currentCwd' = currentCwd
          /\ pushedUrls' = <<>>
          /\ highlights' = <<>>
          /\ lastOpenedFilePath' = lastOpenedFilePath
          /\ Len(Added) = 2
          /\ ((input # L_cat /\ TreeKindOf(TargetOf(input)) = "file") =>
                 /\ Added[2].type = "output"
                 /\ Added[2].text = PrintedFor(props.fs[NamesOf(TargetOf(input))].content))]_vars

\* C16: `cat /about` was run in /books and printed the file
C16_Witness ==
    /\ commandHistory = <<L_cd_books, L_cat_about>>
    /\ currentCwd = P_books
    /\ cwds = << <<"/">>, P_books >>
    /\ history[Len(history)].type = "output"
    /\ history[Len(history)].text = <<"I"," ","a","m"," ","U","d","a","y",".">>
    /\ pushedUrls = <<>>
    /\ highlights = <<>>

\* the lines `cd <target>` of the navigation sessions
CdLines == { L_cd_books, L_cd_sicp, L_cd_up, L_cd_dot }

\* the target of a line `cd <target>`
CdTargetOf(line) == SubSeq(line, 4, Len(line))

\* the directory the line moves to when it succeeds: "/" for home, the canonical
\* path of the target for cd and open; NULL when the line does not succeed
DestinationOf(line) ==
    IF line = L_home THEN <<"/">>
    ELSE IF line \in CdLines
    THEN IF TreeKindOf(CdTargetOf(line)) = "dir" THEN CanonicalOf(CdTargetOf(line)) ELSE NULL
    ELSE IF line = L_open_dune
    THEN IF TreeKindOf(TargetOf(line)) = "dir" THEN CanonicalOf(TargetOf(line)) ELSE NULL
    ELSE NULL

\* C17: home, a successful cd and open of a directory each append exactly one entry
\* to the stack, the destination, which becomes the working directory ("/" for
\* home), also when the destination is the working directory already; a `back`
\* that follows returns to the directory the command was issued from.
C17_NavigationRecordsEntry ==
    /\ [][(Submits /\ Dispatching /\ DestinationOf(input) # NULL) =>
             /\ cwds' = Append(cwds, DestinationOf(input))
             /\ currentCwd' = DestinationOf(input)]_vars
    /\ [](NavsThenBacks(1) =>
             /\ currentCwd
                   = Replay(props, commandHistory, Len(commandHistory) - 2).state.currentCwd
             /\ Len(cwds)
                   = Len(Replay(props, commandHistory, Len(commandHistory) - 2).state.cwds))

\* C17: `home` at the root and `cd .` each pushed the root again, and `back`
\* returned to the root, the directory `cd .` was issued from
C17_Witness ==
    /\ commandHistory = <<L_home, L_cd_dot, L_back>>
    /\ props.initialCwd = NULL /\ props.fsLoaded
    /\ cwds = << <<"/">>, <<"/">> >>
    /\ currentCwd = <<"/">>

\* the lines `search <term>` of the model
SearchLines ==
    { L_search_dune, L_search_theme, L_search_scifi, L_search_title, L_search_none }

\* the term of a line `search <term>`
TermOf(line) == SubSeq(line, 8, Len(line))

\* the node's name, title or one of its tags contains the term, letter case apart
NodeMatches(node, term) ==
    \/ includes(toLowerCase(node.name), toLowerCase(term))
    \/ (node.title # NULL /\ includes(toLowerCase(node.title), toLowerCase(term)))
    \/ \E i \in 1..Len(node.tags) : includes(toLowerCase(node.tags[i]), toLowerCase(term))

\* the paths of the nodes of the whole tree that match the term
MatchingPaths(term) ==
    { <<"/">> \o join(names, <<"/">>) :
          names \in { n \in DOMAIN props.fs : NodeMatches(props.fs[n], term) } }

\* the paths listed by an output entry of search
ListedPaths(e) == { e.items[i] : i \in 1..Len(e.items) }

\* C18 as stated: `search <term>` appends one output entry that lists exactly the
\* nodes of the tree, directories and files, whose name, title or one of whose tags
\* contains the term, letter case apart on both sides (the empty-result message,
\* not an error, when there is none), and leaves the working directory unchanged.
C18_SearchListsMatches ==
    [][(Submits /\ Dispatching /\ input \in SearchLines) =>
          /\ Len(Added) = 2
          /\ Added[2].type = "output"
          /\ ListedPaths(Added[2]) = MatchingPaths(TermOf(input))
          /\ (MatchingPaths(TermOf(input)) = {} =>
                 Added[2].tag = "search: No results for ${term}")
          /\ cwds' = cwds
          /\ currentCwd' = currentCwd]_vars

\* this step changed the working directory or the last-opened file
SelectionChanged ==
    currentCwd' # currentCwd \/ lastOpenedFilePath' # lastOpenedFilePath

\* the notification the presentation layer is due after this step: the directory
\* now current (the parent directory of a file just opened) and the last-opened
\* file
NotificationDue ==
    [directoryPath |-> IF lastOpenedFilePath' # lastOpenedFilePath
                       THEN getParentDirPath(lastOpenedFilePath')
                       ELSE currentCwd',
     filePath |-> lastOpenedFilePath']

\* C19 as stated: every command that changes the working directory (cd, home,
\* back, open of a directory) or the last-opened file emits exactly one
\* notification, whose directoryPath is the directory now current (for a file, its
\* parent directory) and whose filePath is the last-opened file.
C19_ChangeNotifies ==
    [][(Submits /\ SelectionChanged) => highlights' = <<NotificationDue>>]_vars

\* C19 for `open` alone: the notification as stated
C19_OpenNotifies ==
    [][(Submits /\ SelectionChanged /\ input \in OpenLines)
          => highlights' = <<NotificationDue>>]_vars

\* the line is `clear` and reaches the switch, where it empties the log
ClearsLog == input = L_clear /\ Dispatching

\* C20: every submitted non-blank line other than a dispatched `clear` leaves the
\* log it found as a prefix of the new log and appends, at its end, the echo of the
\* line, a command entry tagged with the working directory at submission time,
\* followed by at most one entry, which is an output or an error entry.
C20_LogGrowsInOrder ==
    [][(Submits /\ ~ClearsLog) =>
          /\ Len(history') \in { Len(history) + 1, Len(history) + 2 }
          /\ SubSeq(history', 1, Len(history)) = history
          /\ history'[Len(history) + 1]
                = Item("command", "echo", input, <<>>, <<>>, currentCwd)
          /\ (Len(history') = Len(history) + 2
                 => history'[Len(history')].type \in { "output", "error" })]_vars

\* C20: `pwd` was submitted in /books after `cd books`: the log is the banner, the
\* echo of cd tagged "/", the echo of pwd tagged "/books", and the output of pwd
C20_Witness ==
    /\ commandHistory = <<L_cd_books, L_pwd>>
    /\ Len(history) = 4
    /\ history[1] = defaultBanner
    /\ history[2] = Item("command", "echo", L_cd_books, <<>>, <<>>, <<"/">>)
    /\ history[3] = Item("command", "echo", L_pwd, <<>>, <<>>, P_books)
    /\ history[4].type = "output"

\* resolvePath has returned from the call
Resolved == call.fn = "resolvePath" /\ call.done

\* the number of ".." among the segments
RECURSIVE CountUp(_)
CountUp(parts) ==
    IF parts = <<>> THEN 0
    ELSE (IF Head(parts) = <<".", ".">> THEN 1 ELSE 0) + CountUp(Tail(parts))

\* the target is made of "." and ".." segments only, with more ".." than the
\* current path has segments
ClimbsPastRoot(current, target) ==
    /\ \A i \in 1..Len(Segments(target)) : Segments(target)[i] \in DotSegments
    /\ CountUp(Segments(target)) > Len(Segments(current))

\* C21: for every tree and current path, a target of "." and ".." segments with
\* more ".." than the current path is deep resolves to "/", never to null.
C21_ClampsAtRoot ==
    (Resolved /\ ClimbsPastRoot(call.args.current, call.args.target))
        => call.result[1] = <<"/">>

\* C21: "../../.." was resolved from "a", and "./../.././.." from /books/sicp
C21_Witness ==
    /\ Resolved
    /\ call.args.root = FileSystem
    /\ \/ call.args.current = <<"a">>
          /\ call.args.target = <<".",".","/",".",".","/",".",".">>
       \/ call.args.current = P_books \o <<"/">> \o N_sicp
          /\ call.args.target = <<".","/",".",".","/",".",".","/",".","/",".",".">>
    /\ call.result[1] = <<"/">>

RECURSIVE WalkNames(_, _, _)
\* the node reached from the node `at` by following the segments one by one: "."
\* stays, ".." goes to the parent (the root is its own parent), a name goes to
\* the child of that name; NoNode when there is no such child
WalkNames(root, at, parts) ==
    IF at = NoNode \/ parts = <<>> THEN at
    ELSE IF Head(parts) = <<".">> THEN WalkNames(root, at, Tail(parts))
    ELSE IF Head(parts) = <<".", ".">>
    THEN WalkNames(root, IF at = <<>> THEN at ELSE SubSeq(at, 1, Len(at) - 1), Tail(parts))
    ELSE IF root[at].type = "dir" /\ Append(at, Head(parts)) \in DOMAIN root
    THEN WalkNames(root, Append(at, Head(parts)), Tail(parts))
    ELSE NoNode

\* the node of the tree the path expression names from the current directory, as
\* the list of names leading to it; NoNode when it names none
NodeNamed(root, current, target) ==
    IF target \in { <<"/">>, <<"~">> } THEN <<>>
    ELSE IF startsWith(target, <<"/">>) THEN WalkNames(root, <<>>, Segments(target))
    ELSE IF Segments(current) \in DOMAIN root
    THEN WalkNames(root, Segments(current), Segments(target))
    ELSE NoNode

\* the node named by the arguments of the call
CallNode == NodeNamed(call.args.root, call.args.current, call.args.target)

\* C22 as stated: when the path expression names a node of the tree, resolvePath
\* returns the node's normalized absolute path and getNodeAtPath on that path
\* returns that node; conversely every path resolvePath returns names a node of
\* the tree.
C22_ResolveLookupRoundTrip ==
    Resolved =>
        /\ (CallNode # NoNode =>
               /\ call.result[1] = <<"/">> \o join(CallNode, <<"/">>)
               /\ (Len(call.result) = 2 => call.result[2] = CallNode))
        /\ (call.result[1] # NULL => Segments(call.result[1]) \in DOMAIN call.args.root)

\* rankCandidates has returned from the call
Ranked == call.fn = "rankCandidates" /\ call.done

\* the candidate list holds the name
Holds(candidates, name) == \E i \in 1..Len(candidates) : candidates[i] = name

\* C23 as stated: the ranking of "hlep" against a candidate list that contains
\* "help", with a limit of at least 1, is a list whose first element is "help".
C23_HlepRanksHelpFirst ==
    (Ranked /\ call.args.query = Q_hlep /\ Holds(call.args.candidates, HELP)
        /\ call.args.limit >= 1)
        => (Len(call.result) >= 1 /\ call.result[1] = HELP)

\* C23 amended: the ranking of "hlep" against the shell's 12-command vocabulary,
\* with a limit of at least 1, is the list of "help" alone; against any candidate
\* list that contains "help", with a limit that does not truncate, the result
\* contains "help".
C23_HlepRanksHelpFirstInVocabulary ==
    (Ranked /\ call.args.query = Q_hlep) =>
        /\ (call.args.candidates = AUTOCOMPLETE_COMMANDS /\ call.args.limit >= 1)
              => call.result = <<HELP>>
        /\ (Holds(call.args.candidates, HELP)
               /\ call.args.limit >= Len(call.args.candidates))
              => Holds(call.result, HELP)

\* C23: "hlep" was ranked against the shell's vocabulary with the limit of the
\* unknown-command branch
C23_Witness ==
    /\ Ranked
    /\ call.args.query = Q_hlep
    /\ call.args.candidates = AUTOCOMPLETE_COMMANDS
    /\ call.args.limit = 4
    /\ call.result = <<HELP>>

\* levenshteinDistance has returned from the call
Measured == call.fn = "levenshteinDistance" /\ call.done

\* C24 as stated: the edit distance computed between "hlep" and "help" is 1.
C24_HlepHelpDistanceOne ==
    (Measured /\ call.args.a = Q_hlep /\ call.args.b = HELP) => call.result = 1

\* C24 amended: the edit distance computed between "hlep" and "help", in either
\* order, is 2: the two letters in exchanged places are two substitutions.
C24_HlepHelpDistanceTwo ==
    (Measured /\ { call.args.a, call.args.b } = { Q_hlep, HELP }) => call.result = 2

\* C24: the distance between "hlep" and "help" was computed
C24_Witness ==
    /\ Measured
    /\ call.args.a = Q_hlep
    /\ call.args.b = HELP
    /\ call.result = 2

\* the candidates of the list the result holds
ResultSet == { call.result[i] : i \in 1..Len(call.result) }

\* the limit of the call does not truncate
Untruncated == call.args.limit >= Len(call.args.candidates)

\* the query is a prefix or a substring of the candidate, or their edit distance is
\* at most the threshold for the query's length, letter case apart
EligibleFor(query, candidate) ==
    \/ startsWith(toLowerCase(candidate), toLowerCase(query))
    \/ includes(toLowerCase(candidate), toLowerCase(query))
    \/ levenshteinDistance(toLowerCase(query), toLowerCase(candidate))
           <= (IF Len(query) <= 4 THEN 2 ELSE IF Len(query) <= 8 THEN 3 ELSE 4)

\* the candidates of the call eligible for the query
EligibleSet(query) ==
    { call.args.candidates[i] :
          i \in { k \in 1..Len(call.args.candidates) :
                      EligibleFor(query, call.args.candidates[k]) } }

\* C25 as stated: a candidate is in the untruncated result exactly when, letter
\* case apart, the query is a prefix of it, or a substring of it, or their edit
\* distance is at most 2 for a query of up to 4 characters, 3 for 5 to 8, 4 beyond.
C25_EligibleIffNear ==
    (Ranked /\ Untruncated) => ResultSet = EligibleSet(call.args.query)

\* C25 amended: the same with the query trimmed of the blanks around it, in the
\* tests and in the length the threshold is taken from; a query that is empty
\* once trimmed is a prefix of every candidate.
C25_EligibleIffNearTrimmed ==
    (Ranked /\ Untruncated) => ResultSet = EligibleSet(trim(call.args.query))

\* C25: a 4-letter query padded with blanks was ranked against a list of which it
\* kept one candidate, at distance 2, and dropped the other, at distance 3
C25_Witness ==
    /\ Ranked
    /\ call.args.query = <<" ","h","l","e","p"," ">>
    /\ call.args.candidates = <<HOME, HELP>>
    /\ call.args.limit = 2
    /\ call.result = <<HELP>>

\* the group of the ranking key: 0 = prefix match, 1 = substring match, 2 = other
GroupOf(query, candidate) ==
    IF startsWith(toLowerCase(candidate), query) THEN 0
    ELSE IF includes(toLowerCase(candidate), query) THEN 1
    ELSE 2

\* the order of the ranking key: group, then distance, then the candidates
\* themselves; negative when a goes first
KeyCompare(query, a, b) ==
    IF GroupOf(query, a) # GroupOf(query, b) THEN GroupOf(query, a) - GroupOf(query, b)
    ELSE IF levenshteinDistance(query, toLowerCase(a))
               # levenshteinDistance(query, toLowerCase(b))
    THEN levenshteinDistance(query, toLowerCase(a))
             - levenshteinDistance(query, toLowerCase(b))
    ELSE localeCompare(a, b)

\* the eligible candidates of the call in the order of the key, truncated to the
\* limit; the query is lowercased and trimmed
RankedByKey(query) ==
    LET Keep(c) == EligibleFor(query, c)
        Cmp(a, b) == KeyCompare(query, a, b)
    IN Take(SortBy(FilterSeq(call.args.candidates, Keep), Cmp), call.args.limit)

\* the result has at most `limit` elements, all of them from the candidate list
WithinLimitAndList ==
    /\ Len(call.result) <= call.args.limit
    /\ \A i \in 1..Len(call.result) : Holds(call.args.candidates, call.result[i])

\* C26 as stated: for every query, the empty and the blank one included, the
\* result is the eligible candidates sorted by (group, distance), ties broken
\* lexicographically, truncated to the limit; it never has more than `limit`
\* elements and holds members of the candidate list only.
C26_SortedByKey ==
    Ranked =>
        /\ call.result = RankedByKey(toLowerCase(trim(call.args.query)))
        /\ WithinLimitAndList

\* C26 amended: the same for a query that is not empty once trimmed; for an empty
\* or blank query the result is the first `limit` candidates in the order given.
C26_SortedByKeyUnlessEmpty ==
    Ranked =>
        /\ call.result = IF Len(trim(call.args.query)) = 0
                         THEN Take(call.args.candidates, call.args.limit)
                         ELSE RankedByKey(toLowerCase(trim(call.args.query)))
        /\ WithinLimitAndList

\* C26: "e" was ranked against the vocabulary with limit 4: the substring matches
\* by distance and name, before the nearer "cd" and "ls" that do not hold an "e"
C26_Witness ==
    /\ Ranked
    /\ call.args.query = <<"e">>
    /\ call.args.candidates = AUTOCOMPLETE_COMMANDS
    /\ call.args.limit = 4
    /\ call.result = <<HELP, HOME, OPEN, TREE>>

\* buildTreeText has returned from the call
Rendered == call.fn = "buildTreeText" /\ call.done

\* the nodes of the tree at most d levels below the node, the node included
NodesWithin(root, node, d) ==
    { n \in DOMAIN root :
          /\ Len(n) >= Len(node)
          /\ SubSeq(n, 1, Len(node)) = node
          /\ Len(n) - Len(node) <= d }

\* what the line of a node shows after the indentation: the name, "/" after a
\* directory, and the title when there is one other than the name
LineBody(root, n, name) ==
    (IF root[n].type = "dir" /\ name # <<"/">> THEN name \o <<"/">> ELSE name)
    \o (IF root[n].title # NULL /\ root[n].title # <<>> /\ root[n].title # name
        THEN <<" ", EmDash, " ">> \o root[n].title ELSE <<>>)

\* line i is the line of the node n, which is `depth` levels below the start:
\* four characters of indentation per level, then the body
IsLineOf(line, root, n, name, depth) ==
    /\ Len(line) = 4 * depth + Len(LineBody(root, n, name))
    /\ SubSeq(line, 4 * depth + 1, Len(line)) = LineBody(root, n, name)

\* C27: for every node and every maxDepth >= 0, buildTreeText emits one line for
\* each node at most maxDepth levels below the start node, the start node
\* included, and no other line: the nodes at the bound are printed and not
\* expanded, and maxDepth = 0 gives the line of the start node alone.
C27_TreeDepthInclusive ==
    Rendered =>
        /\ Len(call.result)
              = Cardinality(NodesWithin(call.args.root, call.args.node, call.args.maxDepth))
        /\ \A n \in NodesWithin(call.args.root, call.args.node, call.args.maxDepth) :
              \E i \in 1..Len(call.result) :
                  IsLineOf(call.result[i], call.args.root, n,
                           IF n = call.args.node THEN call.args.displayName
                           ELSE n[Len(n)],
                           Len(n) - Len(call.args.node))
        /\ (call.args.maxDepth = 0 => Len(call.result) = 1)

\* C27: the nested tree was rendered from its root with bound 2: the root, its
\* two children and the two children of a/, with b/ printed and not expanded
C27_Witness ==
    /\ Rendered
    /\ call.args.root = DeepTree
    /\ call.args.node = <<>>
    /\ call.args.maxDepth = 2
    /\ Len(call.result) = 5
    /\ \E i \in 1..5 : IsLineOf(call.result[i], DeepTree, << <<"a">>, <<"b">> >>, <<"b">>, 2)

\* the node the form's path names from the working directory: the working
\* directory itself when the form has no path
TreeTarget(form) ==
    IF form.path = NULL THEN Segments(currentCwd)
    ELSE NodeNamed(props.fs, currentCwd, form.path)

\* what the form is meant to add to the log after the echo: the usage error, or
\* the tree of its target rendered with its bound
TreeMeant(form, entry) ==
    IF form.usage
    THEN entry.type = "error" /\ entry.tag = "Usage: tree [-L depth] [path]"
    ELSE /\ entry.type = "output"
         /\ entry.tag = "tree"
         /\ entry.items = buildTreeText(props.fs, TreeTarget(form),
                                        DisplayNameOf(TreeTarget(form)), form.bound)

\* C28 as stated: `tree` and `tree <path>` render with depth 4; `tree -L n`,
\* `tree -L n <path>`, `tree n`, `tree n <path>` and `tree <path> n` all render
\* with depth exactly n; the bound is a non-negative integer also for a negative
\* or fractional value; `-L` without a numeric value (none, a name, a blank) is a
\* usage error that renders nothing.
C28_TreeFormsSetSameBound ==
    [][\A form \in TreeForms :
          (Submits /\ Dispatching /\ input = TreeLineOf(form) /\ TreeTarget(form) # NoNode) =>
              /\ Len(Added) = 2
              /\ TreeMeant(form, Added[2])]_vars

\* parseCommand has returned from the call
Parsed == call.fn = "parseCommand" /\ call.done

\* what the scan knows before each character: the quote that is open ("" for
\* none) and whether a backslash has just been read; at[i] is the state after i
\* characters
QuoteStates(line) ==
    LET at[i \in 0..Len(line)] ==
            IF i = 0 THEN [quote |-> "", escaped |-> FALSE]
            ELSE IF at[i - 1].escaped THEN [at[i - 1] EXCEPT !.escaped = FALSE]
            ELSE IF line[i] = "\\" THEN [at[i - 1] EXCEPT !.escaped = TRUE]
            ELSE IF at[i - 1].quote # ""
            THEN (IF line[i] = at[i - 1].quote THEN [at[i - 1] EXCEPT !.quote = ""]
                  ELSE at[i - 1])
            ELSE IF line[i] \in { "\"", "'" } THEN [at[i - 1] EXCEPT !.quote = line[i]]
            ELSE at[i - 1]
    IN at

\* the part character i plays: "literal" (it goes into a token), "separator"
\* (a blank outside quotes that no backslash precedes) or "mark" (a backslash
\* that escapes, a quote that opens or closes)
PartOf(line, i) ==
    LET before == QuoteStates(line)[i - 1] IN
    IF before.escaped THEN "literal"
    ELSE IF line[i] = "\\" THEN "mark"
    ELSE IF before.quote # "" THEN (IF line[i] = before.quote THEN "mark" ELSE "literal")
    ELSE IF line[i] \in { "\"", "'" } THEN "mark"
    ELSE IF IsSpace(line[i]) THEN "separator"
    ELSE "literal"

RECURSIVE PiecesFrom(_, _, _)
\* the pieces between separators from character i on, each reduced to its
\* literal characters; cur is the piece being read.  A piece without a literal
\* character is no token.
PiecesFrom(line, i, cur) ==
    IF i > Len(line) THEN (IF cur = <<>> THEN <<>> ELSE <<cur>>)
    ELSE IF PartOf(line, i) = "separator"
    THEN (IF cur = <<>> THEN <<>> ELSE <<cur>>) \o PiecesFrom(line, i + 1, <<>>)
    ELSE IF PartOf(line, i) = "literal" THEN PiecesFrom(line, i + 1, Append(cur, line[i]))
    ELSE PiecesFrom(line, i + 1, cur)

\* the tokens of the line
TokensOf(line) == PiecesFrom(line, 1, <<>>)

\* a quote opened in the line is still open at its end
QuoteLeftOpen(line) == QuoteStates(line)[Len(line)].quote # ""

\* the line is empty or made of blanks only
IsBlank(line) == \A i \in 1..Len(line) : IsSpace(line[i])

\* C29: parseCommand yields "no command" for a line of blanks; otherwise it fails
\* with the unclosed-quote error exactly when a quote is still open at the end of
\* the line; otherwise it yields the tokens obtained by splitting on the blanks
\* that are neither inside quotes nor preceded by a backslash, the quote
\* characters removed and every character after a backslash taken literally:
\* the arguments are all tokens but the first, and there is "no command" when
\* the line has no token.  There is no other failure.
C29_TokenizerResult ==
    Parsed =>
        IF IsBlank(call.args.input) THEN call.result = ParsedNull
        ELSE IF QuoteLeftOpen(call.args.input)
        THEN ~call.result.isNull /\ call.result.error = "Unclosed quote found."
        ELSE /\ call.result.error = ""
             /\ call.result.isNull <=> TokensOf(call.args.input) = <<>>
             /\ ~call.result.isNull =>
                   /\ call.result.args = Tail(TokensOf(call.args.input))
                   /\ IsString(call.result.commandName) =>
                         toLowerCase(TokensOf(call.args.input)[1])
                             \in { call.result.commandName } \cup DOMAIN ALIASES

\* C29: the line a"B\ (a quote left open, with a backslash at the end) failed, and
\* the line "a B" with the blank inside quotes gave the one token `a B`
C29_Witness ==
    /\ Parsed
    /\ \/ /\ call.args.input = <<"a", "\"", "B", "\\">>
          /\ call.result.error = "Unclosed quote found."
       \/ /\ call.args.input = <<"'", " ", "a", "'">>
          /\ call.result.error = ""
          /\ call.result.commandName = <<" ", "a">>
          /\ call.result.args = <<>>

\* the fixed alias table as the claim lists it
AliasTable ==
    (A_what :> HELP) @@ (A_dir :> LS) @@ (A_goto :> CD) @@ (A_read :> CAT)
    @@ (A_tldr :> SUMMARY)

\* a token mapped through the table: an alias to its command, any other token to
\* itself
Canonical(token) == IF token \in DOMAIN AliasTable THEN AliasTable[token] ELSE token

\* the line tokenizes without error into at least one token
HasCommand == ~call.result.isNull /\ call.result.error = ""

\* C30 as stated: the command name parseCommand returns is the first token
\* lowercased and mapped through the alias table, any other token mapping to
\* itself; the arguments are the remaining tokens in order, letter case
\* unchanged; no alias target is an alias key; argument-position autocomplete
\* reads the same table.
C30_CommandNameCanonical ==
    /\ (Parsed /\ HasCommand) =>
          /\ call.result.commandName
                = Canonical(toLowerCase(TokensOf(call.args.input)[1]))
          /\ call.result.args = Tail(TokensOf(call.args.input))
          /\ Canonical(call.result.commandName) = call.result.commandName
    /\ ALIASES = AliasTable
    /\ \A k \in DOMAIN ALIASES : ALIASES[k] \notin DOMAIN ALIASES
    /\ AUTOCOMPLETE_ALIASES = ALIASES

\* C30 for the lines whose first token is not a key of Object.prototype
C30_CanonicalForOwnKeys ==
    (Parsed /\ HasCommand
        /\ toLowerCase(TokensOf(call.args.input)[1]) \notin ObjectPrototypeKeys)
        => /\ call.result.commandName
                 = Canonical(toLowerCase(TokensOf(call.args.input)[1]))
           /\ call.result.args = Tail(TokensOf(call.args.input))
           /\ Canonical(call.result.commandName) = call.result.commandName

\* the position after the last blank of the text: where the token in progress starts
TokenStart(inp) ==
    IF \E i \in 1..Len(inp) : IsSpace(inp[i])
    THEN 1 + CHOOSE i \in 1..Len(inp) :
                 IsSpace(inp[i]) /\ \A j \in (i + 1)..Len(inp) : ~IsSpace(inp[j])
    ELSE 1

\* the text has an opening quote character where its last token starts
OpensQuote(inp) ==
    TokenStart(inp) <= Len(inp) /\ inp[TokenStart(inp)] \in {"\"", "'"}

\* the token in progress: the text after the last blank, from after its opening
\* quote character where it has one
TokenTyped(inp) ==
    SubSeq(inp, TokenStart(inp) + (IF OpensQuote(inp) THEN 1 ELSE 0), Len(inp))

\* a command word is being typed: the text has a non-blank character and no
\* blank after its first one
CommandPosition(inp) ==
    \E i \in 1..Len(inp) :
        /\ ~IsSpace(inp[i])
        /\ \A j \in 1..(i - 1) : IsSpace(inp[j])
        /\ \A j \in (i + 1)..Len(inp) : ~IsSpace(inp[j])

IsPrefixOf(p, s) == Len(p) <= Len(s) /\ \A i \in 1..Len(p) : s[i] = p[i]

\* the command has the token in progress, lowercased, as a prefix
HasTypedPrefix(name) == IsPrefixOf(toLowerCase(TokenTyped(input)), name)

\* the suggestions are the commands with the typed prefix, in the order of the
\* vocabulary, and the ghost is the untyped rest of the first one
CommandsSuggested ==
    /\ Len(Autocomplete.suggestions) = Len(SelectSeq(AUTOCOMPLETE_COMMANDS, HasTypedPrefix))
    /\ \A i \in 1..Len(Autocomplete.suggestions) :
          /\ Autocomplete.suggestions[i].kind = "command"
          /\ Autocomplete.suggestions[i].insertText
                = SelectSeq(AUTOCOMPLETE_COMMANDS, HasTypedPrefix)[i]
          /\ Autocomplete.suggestions[i].insertText \notin DOMAIN AliasTable
    /\ Autocomplete.ghostSuffix
          = IF Len(Autocomplete.suggestions) = 0 THEN <<>>
            ELSE SubSeq(Autocomplete.suggestions[1].insertText,
                        Len(TokenTyped(input)) + 1,
                        Len(Autocomplete.suggestions[1].insertText))

\* C31 (as stated): whenever a command word is being typed, the suggestion list
\* is exactly the vocabulary commands that have the typed token, lowercased, as a
\* prefix, in vocabulary order, no alias among them, and the ghost suffix is the
\* part of the first suggestion after the typed length, empty when nothing
\* matches.
C31_CommandSuggestions == CommandPosition(input) => CommandsSuggested

\* C31 (amended): the same while no onboarding question is awaiting its answer;
\* while one is, nothing is suggested and the ghost suffix is empty.
C31_CommandSuggestionsOutsideDetour ==
    CommandPosition(input) =>
        IF helpWizardStep = "none" THEN CommandsSuggested
        ELSE Autocomplete.suggestions = <<>> /\ Autocomplete.ghostSuffix = <<>>

\* "HE" is typed outside the detour: help is suggested and "lp" is the ghost
C31_Witness ==
    /\ helpWizardStep = "none"
    /\ input = K_HE
    /\ call.fn = "onChange"
    /\ Len(Autocomplete.suggestions) = 1
    /\ Autocomplete.suggestions[1].insertText = HELP
    /\ Autocomplete.ghostSuffix = <<"l", "p">>

\* an argument is being typed: a blank follows the first non-blank character
ArgumentPosition(inp) ==
    (\E i \in 1..Len(inp) : ~IsSpace(inp[i])) /\ ~CommandPosition(inp)

\* the command word of the text: its first run of non-blank characters
WordTyped(inp) ==
    LET first == CHOOSE i \in 1..Len(inp) :
                    ~IsSpace(inp[i]) /\ \A j \in 1..(i - 1) : IsSpace(inp[j])
        last == CHOOSE k \in first..Len(inp) :
                    /\ \A j \in first..k : ~IsSpace(inp[j])
                    /\ k = Len(inp) \/ IsSpace(inp[k + 1])
    IN SubSeq(inp, first, last)

\* the completion mode of the command being typed, aliases included
ModeTyped ==
    LET name == Canonical(toLowerCase(WordTyped(input)))
    IN IF name = CD THEN "dir"
       ELSE IF name = CAT THEN "file"
       ELSE IF name \in {OPEN, TREE} THEN "both"
       ELSE "none"

\* the number of characters of the token up to and including its last '/'
DirPartLen(token) ==
    IF \E i \in 1..Len(token) : token[i] = "/"
    THEN CHOOSE i \in 1..Len(token) :
            token[i] = "/" /\ \A j \in (i + 1)..Len(token) : token[j] # "/"
    ELSE 0

\* the directory-part of the token in progress, its '/' included, and the base-part
DirPartTyped == SubSeq(TokenTyped(input), 1, DirPartLen(TokenTyped(input)))
BasePartTyped ==
    SubSeq(TokenTyped(input), DirPartLen(TokenTyped(input)) + 1, Len(TokenTyped(input)))

\* the directory-part names a directory of the tree from the working directory
DirPartIsDirectory == props.fsLoaded /\ TreeKindOf(DirPartTyped) = "dir"

\* the children of that directory that fit the base-part and the mode
NamesExpected ==
    { n \in { props.fs[NamesOf(DirPartTyped)].children[i] :
                 i \in 1..Len(props.fs[NamesOf(DirPartTyped)].children) } :
        /\ IsPrefixOf(toLowerCase(BasePartTyped), toLowerCase(n))
        /\ ModeTyped = "both"
              \/ props.fs[Append(NamesOf(DirPartTyped), n)].type = ModeTyped }

\* the text inserted for the child n
InsertFor(n) ==
    DirPartTyped \o n
        \o (IF props.fs[Append(NamesOf(DirPartTyped), n)].type = "dir" THEN <<"/">>
            ELSE <<>>)

\* the child the i-th suggestion stands for
NameSuggested(i) ==
    CHOOSE n \in NamesExpected : InsertFor(n) = Autocomplete.suggestions[i].insertText

\* sibling order: directories before files, then by name
SiblingBefore(a, b) ==
    LET typeA == props.fs[Append(NamesOf(DirPartTyped), a)].type
        typeB == props.fs[Append(NamesOf(DirPartTyped), b)].type
    IN IF typeA # typeB THEN typeA = "dir" ELSE localeCompare(a, b) < 0

\* the suggestions are the fitting children of the directory-part, each once, in
\* sibling order, with their insert texts; none when the mode is none or the
\* directory-part names no directory
PathsSuggested ==
    IF ModeTyped = "none" \/ ~DirPartIsDirectory THEN Autocomplete.suggestions = <<>>
    ELSE /\ Len(Autocomplete.suggestions) = Cardinality(NamesExpected)
         /\ \A i \in 1..Len(Autocomplete.suggestions) :
               /\ \E n \in NamesExpected :
                     InsertFor(n) = Autocomplete.suggestions[i].insertText
               /\ Autocomplete.suggestions[i].kind
                     = props.fs[Append(NamesOf(DirPartTyped), NameSuggested(i))].type
         /\ \A n \in NamesExpected :
               \E i \in 1..Len(Autocomplete.suggestions) : NameSuggested(i) = n
         /\ \A i, j \in 1..Len(Autocomplete.suggestions) :
               i < j => SiblingBefore(NameSuggested(i), NameSuggested(j))

\* C32 (as stated): whenever an argument is being typed, the completion mode is
\* directory for cd, file for cat, either for open and tree (aliases included) and
\* none for every other command; the suggestions are exactly the direct children
\* of the directory named by the directory-part of the last token (split at its
\* last '/', resolved against the working directory) whose name starts with the
\* base-part case-insensitively and whose type fits the mode, in sibling order,
\* each inserting directory-part + name + '/' for directories; a directory-part
\* that names no directory yields no suggestions.
C32_PathSuggestions == ArgumentPosition(input) => PathsSuggested

\* C32 (amended): the same while no onboarding question is awaiting its answer;
\* while one is, nothing is suggested.
C32_PathSuggestionsOutsideDetour ==
    ArgumentPosition(input) =>
        IF helpWizardStep = "none" THEN PathsSuggested
        ELSE Autocomplete.suggestions = <<>>

\* in /books, `cd ../b` is typed: the root's directory books is suggested, to be
\* inserted as ../books/
C32_Witness ==
    /\ helpWizardStep = "none"
    /\ currentCwd = P_books
    /\ input = K_cd_up_b
    /\ Len(Autocomplete.suggestions) = 1
    /\ Autocomplete.suggestions[1].insertText
          = <<".", ".", "/", "b", "o", "o", "k", "s", "/">>
    /\ Autocomplete.suggestions[1].kind = "dir"

\* this step is a press of Tab
TabPressed == call'.fn = "handleTabComplete"

\* the text in front of the token in progress, and the quote character that opens it
TextBeforeToken(inp) == SubSeq(inp, 1, TokenStart(inp) - 1)
QuoteTyped(inp) == IF OpensQuote(inp) THEN <<inp[TokenStart(inp)]>> ELSE <<>>

\* the space that follows an accepted completion: always after a command, after
\* a path when it is not a directory
SpaceAfterTop ==
    IF CommandPosition(input) \/ Autocomplete.suggestions[1].kind # "dir" THEN <<" ">>
    ELSE <<>>

\* C33: a press of Tab with at least one suggestion replaces the token in progress
\* by the top suggestion's insert text, keeps the text before the token and an
\* opening quote character, and appends a space after a command always and after
\* a path exactly when it is not a directory; with no suggestion the input stays
\* as it is.  No press of Tab changes the log, the working directory, the stack
\* or the command history.
C33_TabAcceptsTop ==
    [][TabPressed =>
          /\ UNCHANGED <<history, currentCwd, cwds, commandHistory>>
          /\ input' = IF Len(Autocomplete.suggestions) = 0 THEN input
                      ELSE TextBeforeToken(input) \o QuoteTyped(input)
                              \o Autocomplete.suggestions[1].insertText \o SpaceAfterTop]_vars

\* Tab was pressed on `cd "bo`: the prompt holds `cd "books/`, quote kept, no space
C33_Witness ==
    /\ call.fn = "handleTabComplete"
    /\ input = <<"c", "d", " ", "\"", "b", "o", "o", "k", "s", "/">>
    /\ commandHistory = <<>>

\* this step is a press of an arrow, an edit of the prompt's text, a submission
UpPressed == call'.fn = "handleHistory" /\ call'.args = <<"up">>
DownPressed == call'.fn = "handleHistory" /\ call'.args = <<"down">>
Edited == call'.fn = "onChange"
EnterPressed == call'.fn = "handleSubmit"

\* the pointer is unset (-1) or the index of an entry of the command history
PointerInRange == historyPointer \in -1..(Len(commandHistory) - 1)

RECURSIVE UpTimes(_, _, _)
\* what k presses of the up arrow leave in the pointer and the prompt
UpTimes(k, pointer, inp) ==
    IF k = 0 THEN Shown(pointer, inp)
    ELSE UpTimes(k - 1, handleHistory(commandHistory, pointer, inp, "up").historyPointer,
                 handleHistory(commandHistory, pointer, inp, "up").input)

\* the k-th most recent line, the oldest one when there are fewer than k
KthMostRecent(k) ==
    IF k >= Len(commandHistory) THEN commandHistory[1]
    ELSE commandHistory[Len(commandHistory) - k + 1]

\* the number of presses that are followed
MaxPresses == 5

\* the pointer is in range, and from the unset pointer k presses of the up arrow
\* show the k-th most recent line, further presses staying on the oldest
PointerAndUpPresses ==
    /\ PointerInRange
    /\ Len(commandHistory) > 0 =>
          \A k \in 1..MaxPresses : UpTimes(k, -1, input).input = KthMostRecent(k)

\* what one step does to the command history, the pointer and the prompt
HistorySteps ==
    /\ EnterPressed => commandHistory' = Append(commandHistory, input)
    /\ ~EnterPressed => commandHistory' = commandHistory
    /\ (UpPressed /\ Len(commandHistory) > 0) =>
          /\ historyPointer' = IF historyPointer = -1 THEN Len(commandHistory) - 1
                               ELSE IF historyPointer = 0 THEN 0
                               ELSE historyPointer - 1
          /\ input' = commandHistory[historyPointer' + 1]
    /\ (DownPressed /\ historyPointer = -1) =>
          historyPointer' = -1 /\ input' = input
    /\ (DownPressed /\ historyPointer # -1) =>
          IF historyPointer + 1 < Len(commandHistory)
          THEN historyPointer' = historyPointer + 1
                  /\ input' = commandHistory[historyPointer + 2]
          ELSE historyPointer' = -1 /\ input' = <<>>
    /\ (Edited \/ EnterPressed) => historyPointer' = -1

\* C34: the history pointer is always unset or the index of an existing entry of
\* the command history; every submitted non-blank line (failed ones and answers of
\* the detour included) is appended once, in order, and nothing else changes the
\* history; from the unset pointer k presses of the up arrow show the k-th most
\* recent line and further presses stay on the oldest; the down arrow moves one
\* step towards the newest and, past it, unsets the pointer and empties the input;
\* with the pointer unset it changes nothing; an edit of the input and a
\* submission unset the pointer.
C34_HistoryCycling == []PointerAndUpPresses /\ [][HistorySteps]_vars

\* three lines were submitted, one of them failed and one answered the detour;
\* the up arrow was pressed to the oldest line
C34_Witness ==
    /\ Len(commandHistory) = 3
    /\ commandHistory[1] = L_help /\ commandHistory[2] = K_y
    /\ commandHistory[3] = L_cd_missing
    /\ call.fn = "handleHistory" /\ call.args = <<"up">>
    /\ historyPointer = 0
    /\ input = L_help

\* the lines that run ls, with and without arguments, one through the alias
LsLines == { L_ls, L_ls_books, L_ls_missing, L_dir_dune }

\* the children of the working directory
CwdChildren ==
    { props.fs[Segments(currentCwd)].children[i] :
         i \in 1..Len(props.fs[Segments(currentCwd)].children) }

\* what ls prints for the child n of the working directory
ListedFor(n) ==
    n \o (IF props.fs[Append(Segments(currentCwd), n)].type = "dir" THEN <<"/">> ELSE <<>>)

\* the child of the working directory that the printed item stands for
ChildListed(item) == CHOOSE n \in CwdChildren : ListedFor(n) = item

\* directories before files, each group by name
ListedBefore(a, b) ==
    LET typeA == props.fs[Append(Segments(currentCwd), a)].type
        typeB == props.fs[Append(Segments(currentCwd), b)].type
    IN IF typeA # typeB THEN typeA = "dir" ELSE localeCompare(a, b) < 0

\* the items are the children of the working directory, each once, in order
ListsWorkingDirectory(items) ==
    /\ Len(items) = Cardinality(CwdChildren)
    /\ \A i \in 1..Len(items) : \E n \in CwdChildren : ListedFor(n) = items[i]
    /\ \A n \in CwdChildren : \E i \in 1..Len(items) : items[i] = ListedFor(n)
    /\ \A i, j \in 1..Len(items) :
          i < j => ListedBefore(ChildListed(items[i]), ChildListed(items[j]))

\* C35: `ls`, whatever arguments follow the command word, appends one output entry
\* that lists exactly the direct children of the working directory, directories
\* before files and each group in the order of the names; it leaves the working
\* directory, the stack, the detour and the last-opened file alone and sends no
\* address update and no sidebar notification.
C35_LsListsWorkingDirectory ==
    [][(Submits /\ Dispatching /\ input \in LsLines) =>
          /\ Len(Added) = 2
          /\ Added[2].type = "output"
          /\ ListsWorkingDirectory(Added[2].items)
          /\ history' = history \o Added
          /\ commandHistory' = Append(commandHistory, input)
          /\ UNCHANGED <<cwds, currentCwd, hasUsedOpen, helpWizardStep, helpWizardSeen,
                         lastOpenedFilePath>>
          /\ pushedUrls' = <<>>
          /\ highlights' = <<>>]_vars

\* `ls books` was run in the root and listed the root: books/ dune/ about
C35_Witness ==
    /\ Len(commandHistory) >= 1
    /\ commandHistory[Len(commandHistory)] = L_ls_books
    /\ currentCwd = <<"/">>
    /\ history[Len(history)].type = "output"
    /\ history[Len(history)].items
          = << N_books \o <<"/">>, N_dune \o <<"/">>, N_about >>

\* the line in the prompt is an accepted answer: y or yes, n or no
SaysYes == toLowerCase(trim(input)) \in { <<"y">>, <<"y","e","s">> }
SaysNo == toLowerCase(trim(input)) \in { <<"n">>, <<"n","o">> }

\* the line in the prompt is the help command
SaysHelp == Canonical(toLowerCase(WordTyped(input))) = HELP

\* the detour is in one of its three states
DetourState == helpWizardStep \in {"none", "start", "experience"}

\* the moves of the detour: into the first question by help only; an accepted
\* answer moves on as the machine says and appends one output entry after the
\* echo; nothing else moves it
DetourMoves ==
    /\ (helpWizardStep = "none" /\ helpWizardStep' # "none") =>
          Submits /\ SaysHelp /\ helpWizardStep' = "start"
    /\ (helpWizardStep # "none" /\ helpWizardStep' # helpWizardStep) =>
          Submits /\ (SaysYes \/ SaysNo)
    /\ (Submits /\ helpWizardStep = "start" /\ SaysYes) => helpWizardStep' = "experience"
    /\ (Submits /\ helpWizardStep = "start" /\ SaysNo) => helpWizardStep' = "none"
    /\ (Submits /\ helpWizardStep = "experience" /\ (SaysYes \/ SaysNo)) =>
          helpWizardStep' = "none"
    /\ (Submits /\ helpWizardStep # "none" /\ (SaysYes \/ SaysNo)) =>
          /\ Len(Added) = 2
          /\ Added[2].type = "output"
          /\ history' = history \o Added

\* C36: the detour is a machine of three states; idle goes to awaiting-start only
\* by a help command; awaiting-start goes to awaiting-experience on y/yes and to
\* idle on n/no; awaiting-experience goes to idle on y/yes and on n/no; there is
\* no other transition; every accepted answer appends exactly one output entry;
\* so at most two accepted answers lead from a question back to normal dispatch.
C36_DetourMachine == []DetourState /\ [][DetourMoves]_vars

\* help, Yes, n: the two questions were answered and the detour is over
C36_Witness ==
    /\ commandHistory = <<L_help, L_yes, L_no>>
    /\ helpWizardStep = "none"
    /\ helpWizardSeen
    /\ history[Len(history)].tag = "help-wizard: No worries, we'll start simple"

RECURSIVE EditDistance(_, _)
\* the least number of insertions, deletions and substitutions of one letter that
\* turn a into b, by its defining recurrence
EditDistance(a, b) ==
    IF a = <<>> THEN Len(b)
    ELSE IF b = <<>> THEN Len(a)
    ELSE IF Head(a) = Head(b) THEN EditDistance(Tail(a), Tail(b))
    ELSE 1 + Min2(Min2(EditDistance(Tail(a), b), EditDistance(a, Tail(b))),
                  EditDistance(Tail(a), Tail(b)))

\* C37: for all words a and b of the bounded alphabet and length, the empty word
\* included, levenshteinDistance(a, b) is the unit-cost edit distance (insert,
\* delete, substitute), equals levenshteinDistance(b, a), and is 0 exactly when
\* a = b.
C37_DistanceIsLevenshtein ==
    Measured =>
        /\ call.result = EditDistance(call.args.a, call.args.b)
        /\ call.result = levenshteinDistance(call.args.b, call.args.a)
        /\ (call.result = 0) <=> (call.args.a = call.args.b)

\* the distance from "abc" to "ca" was computed: 3, with no exchange of letters
\* counted as one edit
C37_Witness ==
    /\ Measured
    /\ call.args.a = <<"a", "b", "c">>
    /\ call.args.b = <<"c", "a">>
    /\ call.result = 3

\* the entry at the bottom of the log is an error entry
ErrorShown == Len(history) > 0 /\ history[Len(history)].type = "error"

\* the fixes the error entry at the bottom of the log shows
FixesShown == history[Len(history)].fixes

\* the component ends a command on an error entry, or on an exception
EndsInError(c) ==
    \/ c.uncaught
    \/ /\ Len(c.state.history) > 0
       /\ c.state.history[Len(c.state.history)].type = "error"

\* the fix, submitted in the state the error entry is shown in, does not end in
\* an error entry
FixRuns(fix) == ~EndsInError(execute(Component, props, fix.command))

\* the messages of a failed path resolution in cd, cat, open and tree
CdNotFoundTag == "cd: no such file or directory: ${target}"
CatNotFoundTag == "cat: ${target}: No such file"
OpenNotFoundTag == "open: ${target}: No such file or directory"
TreeNotFoundTag == "tree: no such file or directory: ${targetPathArg}"

\* the node types the command of the message needs
KindsNeeded(tag) ==
    IF tag = CdNotFoundTag THEN {"dir"}
    ELSE IF tag = CatNotFoundTag THEN {"file"}
    ELSE {"dir", "file"}

\* the last word of a fix, empty when the fix is one word or ends in a space
FixArgument(fix) ==
    IF indexOf(fix.command, " ") = -1 THEN <<>>
    ELSE sliceFrom(fix.command, lastIndexOf(fix.command, " ") + 1)

\* the fix of a failed path resolution names a path: it is not one of the
\* fallbacks (ls, pwd, tree, "open ")
IsPathFix(tag, fix) ==
    /\ tag \in {CdNotFoundTag, CatNotFoundTag, OpenNotFoundTag, TreeNotFoundTag}
    /\ FixArgument(fix) # <<>>

\* C38 as stated: whenever the log ends in an error entry, the entry shows at
\* most 4 fixes; each of them, submitted in that state, does not itself end in
\* an error entry; and each path fix of a failed cd, cat, open or tree names,
\* from the working directory, an existing node of the type the command needs.
C38_FixesAreExecutable ==
    ErrorShown =>
        /\ Len(FixesShown) <= 4
        /\ \A i \in 1..Len(FixesShown) :
              /\ FixRuns(FixesShown[i])
              /\ IsPathFix(history[Len(history)].tag, FixesShown[i]) =>
                    TreeKindOf(FixArgument(FixesShown[i]))
                        \in KindsNeeded(history[Len(history)].tag)

\* the part of C38 about path fixes alone
C38_PathFixesResolve ==
    ErrorShown =>
        /\ Len(FixesShown) <= 4
        /\ \A i \in 1..Len(FixesShown) :
              IsPathFix(history[Len(history)].tag, FixesShown[i]) =>
                  /\ FixRuns(FixesShown[i])
                  /\ TreeKindOf(FixArgument(FixesShown[i]))
                        \in KindsNeeded(history[Len(history)].tag)

\* a path fix is shown
C38_PathFixShown ==
    /\ ErrorShown
    /\ \E i \in 1..Len(FixesShown) : IsPathFix(history[Len(history)].tag, FixesShown[i])
    /\ history[Len(history)].tag = CatNotFoundTag

\* the path is written in canonical form: "/" alone, or "/" before each of its
\* names with no name empty, "." or ".." and no slash at the end
IsCanonicalPath(path) ==
    /\ Len(path) >= 1
    /\ path[1] = "/"
    /\ \/ path = <<"/">>
       \/ /\ path[Len(path)] # "/"
          /\ \A i \in 1..(Len(path) - 1) : ~(path[i] = "/" /\ path[i + 1] = "/")
          /\ \A i \in 1..Len(Segments(path)) :
                Segments(path)[i] \notin { <<".">>, <<".", ".">> }

\* the canonical path names a Directory node of the tree
NamesDirectory(path) ==
    /\ Segments(path) \in DOMAIN props.fs
    /\ props.fs[Segments(path)].type = "dir"

\* C39: in every reachable state of a session on a loaded tree (every session
\* starts at the root or at /books), the working directory and every entry of
\* the visited-path stack is a canonical absolute path that names a Directory
\* node of the tree.
C39_WorkingDirectoryIsDirectory ==
    props.fsLoaded =>
        /\ IsCanonicalPath(currentCwd) /\ NamesDirectory(currentCwd)
        /\ \A i \in 1..Len(cwds) : IsCanonicalPath(cwds[i]) /\ NamesDirectory(cwds[i])

\* C39: a target written with "./", a doubled and a trailing slash has become
\* the working directory, after a cd to a file and an open of a name in no
\* directory were refused
C39_Witness ==
    /\ commandHistory = <<L_cd_file, L_open_constructor, L_cd_slashes>>
    /\ props.fsLoaded
    /\ props.initialCwd = NULL
    /\ currentCwd = <<"/","b","o","o","k","s","/","s","i","c","p">>
    /\ cwds = << <<"/">>, currentCwd >>

\* names to go into and come back from: a directory of the root, a file, a
\* directory of /books, a name in no directory and a key of Object.prototype
ThereAndBackNames ==
    { N_books, N_about, N_sicp, <<"n","o","p","e">>,
      <<"c","o","n","s","t","r","u","c","t","o","r">> }

\* absolute targets: of a directory, of a file, of nothing, and with "..", a
\* doubled and a trailing slash
AbsoluteForms ==
    { <<"/","b","o","o","k","s","/","s","i","c","p">>, <<"/","a","b","o","u","t">>,
      <<"/","n","o","p","e">>, <<"/","d","u","n","e","/",".",".","/","/","b","o","o","k","s","/">>,
      <<"/",".",".">> }

\* the lines `cd x/..` of the session
CdThereAndBack == { L_cd_nope_up, L_cd_about_up, L_cd_sicp_up }

\* from the working directory, "x/.." resolves to the working directory for
\* every name x, "~" to the root, and an absolute target to what it resolves to
\* from the root
ResolvesAfterFolding ==
    props.fsLoaded =>
        /\ \A x \in ThereAndBackNames :
              resolvePath(props.fs, currentCwd, x \o <<"/", ".", ".">>) = currentCwd
        /\ resolvePath(props.fs, currentCwd, <<"~">>) = <<"/">>
        /\ \A t \in AbsoluteForms :
              resolvePath(props.fs, currentCwd, t) = resolvePath(props.fs, <<"/">>, t)

\* a dispatched `cd x/..` adds the echo and nothing else to the log, keeps the
\* working directory and pushes it on the stack
CdThereAndBackStays ==
    (Submits /\ Dispatching /\ input \in CdThereAndBack) =>
        /\ ~uncaught'
        /\ Len(history') = Len(history) + 1
        /\ currentCwd' = currentCwd
        /\ cwds' = Append(cwds, currentCwd)

\* C40: resolvePath folds "." and ".." before it looks anything up: from every
\* working directory C of a session "x/.." resolves to C for every name x
\* (a directory, a file, a name in no directory), "~" resolves to the root and
\* an absolute target resolves as it does from the root; `cd x/..` succeeds,
\* keeps the working directory at C and pushes one entry on the stack.
C40_FoldsBeforeWalking == []ResolvesAfterFolding /\ [][CdThereAndBackStays]_vars

\* C40: in /books, `cd nope/..` and `cd about/..` (neither name is in /books)
\* have each pushed /books again
C40_Witness ==
    /\ commandHistory = <<L_cd_books, L_cd_nope_up, L_cd_about_up>>
    /\ props.fsLoaded
    /\ props.initialCwd = NULL
    /\ currentCwd = P_books
    /\ cwds = << <<"/">>, P_books, P_books, P_books >>
    /\ ~ErrorShown
====
